---- MODULE Spec2Model ----
(***************************************************************************)
(* Point-of-sale transaction engine: createTransaction, cancelTransaction, *)
(* refundTransaction (handlers/transactions.ts), updateProductStock and    *)
(* deleteProduct (handlers/products.ts), updateSetting and                 *)
(* initializeDefaultSettings (handlers/settings.ts) over the PostgreSQL    *)
(* tables of db/schema.ts.  The handlers open no database transaction: every *)
(* `await db...execute()` is one atomic statement, and concurrently running *)
(* requests interleave between statements.  One action of the model is one *)
(* statement together with the synchronous code that follows it.           *)
(* Money is kept in half cents, so that an amount with three fraction      *)
(* digits can be told from what a numeric(10, 2) column stores of it.      *)
(* Time is kept in ticks, DayLength of them to the day.                    *)
(***************************************************************************)
EXTENDS Integers, Sequences, FiniteSets, TLC

\* ---------------------------------------------------------------- bounds
NumProcs == 2
NumProducts == 2
InitStock == 2
MaxQty == 2
MaxLines == 2
MaxTx == 1
MaxSales == 2
MaxStock == 2
MaxAdjust == 1
DayLength == 2
MaxTime == 3
MaxTzOffset == 1
LargeDiscount == 500
MaxCodes == 3
MaxProducts == 3
MaxCategories == 2
MaxUsers == 4
MaxSalt == 2

Procs == 1..NumProcs
ProductIds == 1..NumProducts
TxIds == 1..MaxTx
Deltas == {-1, 1}
\* selling prices a product is given later: 0.25 and 0.255
NewPrices == {50, 51}
\* category_id of a product input: null or the id of a category
CategoryInputs == {0} \cup (1..MaxCategories)

\* selling_price of the seeded products, in half cents: 0.50, 1.00, ...
SeedPrice(id) == 100 * id

VARIABLES
    productsTable,         \* id -> [stock_quantity, selling_price, category_id]
    transactionsTable,     \* id -> transaction row
    transactionItemsTable, \* id -> transaction item row
    serial,                \* the serial sequences of the tables
    pc,                    \* per request: the statement it is about to run
    local,                 \* per request: the handler's local variables
    restored,              \* history: tx id -> product id -> units added back by reversals
    adjustments,           \* history: number of manual stock adjustments started
    sequential,            \* TRUE: requests are served one at a time
    settingsTable,         \* key -> value
    now,                   \* the clock, in ticks since midnight UTC of day 0
    tzOffset,              \* the server's time zone: local time is UTC + tzOffset ticks
    usersTable,            \* id -> [username, password_hash, role]
    categoriesTable,       \* id -> [name]
    hist                   \* history (sequential runs): tables at the start of the call, and the previous call

tables == <<productsTable, transactionsTable, transactionItemsTable>>
ghost == <<restored, adjustments>>
\* what the transaction and product handlers never write
env == <<sequential, settingsTable, now, tzOffset, usersTable, categoriesTable>>
vars == <<productsTable, transactionsTable, transactionItemsTable, serial, pc, local,
          restored, adjustments, sequential, settingsTable, now, tzOffset, usersTable,
          categoriesTable, hist>>

\* ------------------------------------------------------- rows and helpers
NoRow == [id |-> 0, stock_quantity |-> 0, selling_price |-> 0]
NoSetting == [key |-> "none", value |-> "none"]
\* a getTransactions query none of whose optional fields is given
Absent == -1
NoQuery == [start_date |-> Absent, end_date |-> Absent, user_id |-> Absent,
            status |-> "absent", limit |-> Absent, offset |-> Absent]
\* category_id: null
Null == 0
NoProductInput == [id |-> 0, selling_price |-> Absent, category_id |-> Absent,
                   stock_quantity |-> Absent]
NoCode == [date |-> 0, sequence |-> 0]
NoCart == [user_id |-> 0, items |-> << >>, transaction_discount |-> 0, payment_method |-> "none"]
NoUserInput == [username |-> "none", password |-> "none", role |-> "none"]
NoUser == [id |-> 0, username |-> "none", role |-> "none"]
NoToken == [prefix |-> "none", id |-> 0, issued_at |-> 0]
\* the argument of importData: null, a string, or an object with one array per table
NoData == [kind |-> "none", users |-> << >>, categories |-> << >>, products |-> << >>,
           transactions |-> << >>, transaction_items |-> << >>, settings |-> << >>]

IdleLocal ==
    [op |-> "none", input |-> NoCart, id |-> 0, delta |-> 0, i |-> 0,
     transactionCode |-> NoCode, subtotal |-> 0, totalDiscountAmount |-> 0,
     transaction |-> 0, product |-> NoRow, items |-> << >>, newStock |-> 0,
     setting |-> NoSetting, query |-> NoQuery, rows |-> << >>,
     productInput |-> NoProductInput, userInput |-> NoUserInput, adminCount |-> 0,
     user |-> NoUser, token |-> NoToken, data |-> NoData,
     result |-> "none", status |-> "none"]

\* db.select().from(productsTable).where(eq(productsTable.id, id)).limit(1)
SelectProduct(id) ==
    IF id \in DOMAIN productsTable
    THEN [id |-> id, stock_quantity |-> productsTable[id].stock_quantity,
          selling_price |-> productsTable[id].selling_price]
    ELSE NoRow

\* mutant: the result of the select is never found empty
FoundAlways(row) == TRUE

Found(row) == row.id # 0

RECURSIVE SortedSeq(_)
SortedSeq(S) ==
    IF S = {} THEN << >>
    ELSE LET m == CHOOSE x \in S : \A y \in S : x <= y
         IN <<m>> \o SortedSeq(S \ {m})

\* ids of the item rows of one transaction, in insertion order
ItemIdsOf(t) ==
    SortedSeq({k \in DOMAIN transactionItemsTable : transactionItemsTable[k].transaction_id = t})

Max(a, b) == IF a >= b THEN a ELSE b

\* what a numeric(10, 2) column keeps of an amount written to it as a string: the
\* amount rounded to whole cents, a half cent rounded away from zero
ToNumeric(x) == IF x % 2 = 0 THEN x ELSE IF x > 0 THEN x + 1 ELSE x - 1

\* ------------------------------------------------------------------- time
\* now.toISOString().slice(0, 10): the calendar day in UTC
DateStr(t) == t \div DayLength
\* new Date(now.getFullYear(), now.getMonth(), now.getDate()): midnight of the
\* calendar day in the server's time zone, as an instant
StartOfDay(t) == ((t + tzOffset) \div DayLength) * DayLength - tzOffset
\* new Date(startOfDay.getTime() + 24 * 60 * 60 * 1000)
EndOfDay(t) == StartOfDay(t) + DayLength

\* ------------------------------------------------------------------ inputs
Lines == [product_id : ProductIds, quantity : 1..MaxQty, discount_amount : {0}]
LineSeqs == UNION {[1..n -> Lines] : n \in 1..MaxLines}
Carts == [user_id : {1}, items : LineSeqs, transaction_discount : {0},
          payment_method : {"cash"}]

\* createTransactionInputSchema: what the router lets through to createTransaction
CreateTransactionInputSchema(cart) ==
    /\ \A k \in 1..Len(cart.items) :
          /\ cart.items[k].quantity \in Int /\ cart.items[k].quantity > 0
          /\ cart.items[k].discount_amount >= 0
    /\ cart.transaction_discount >= 0
    /\ cart.payment_method \in {"cash", "card", "mobile"}

\* requests with discounts: of half a cent, of a cent, and larger than any line
PricedLines == [product_id : ProductIds, quantity : 0..MaxQty,
                discount_amount : {0, 1, 2, LargeDiscount}]
PricedLineSeqs == UNION {[1..n -> PricedLines] : n \in 0..MaxLines}
PricedCarts ==
    {cart \in [user_id : {1}, items : PricedLineSeqs,
                transaction_discount : {0, 2, LargeDiscount}, payment_method : {"cash"}] :
        CreateTransactionInputSchema(cart)}

Idle(p) == pc[p] = "idle"
Others(p) == Procs \ {p}
\* a request may start at any time when requests run in parallel; in a sequential run
\* one worker serves them one after the other
MayStart(p) == Idle(p) /\ (sequential => p = 1)

Snapshot == [products |-> productsTable, transactions |-> transactionsTable,
             items |-> transactionItemsTable, categories |-> categoriesTable,
             users |-> usersTable, settings |-> settingsTable]
NoSnapshot == [products |-> << >>, transactions |-> << >>, items |-> << >>,
               categories |-> << >>, users |-> << >>, settings |-> << >>]
NoLast == [transaction |-> 0, products |-> << >>]
NoHist == [snap |-> NoSnapshot, last |-> NoLast]
\* a call starts: the tables it finds; the previous call is remembered only when this
\* call reverses the transaction that call created
HistStart(op, id) ==
    IF sequential
    THEN [snap |-> Snapshot,
          last |-> IF op \in {"cancelTransaction", "refundTransaction"}
                      /\ hist.last.transaction = id
                   THEN hist.last ELSE NoLast]
    ELSE hist

\* the call returns or throws: only what the caller sees is kept
Finish(p, res) ==
    [IdleLocal EXCEPT !.op = local[p].op, !.input = local[p].input, !.id = local[p].id,
                      !.delta = local[p].delta, !.transaction = local[p].transaction,
                      !.newStock = local[p].newStock,
                      !.productInput = local[p].productInput,
                      !.userInput = local[p].userInput, !.data = local[p].data,
                      !.result = res]

\* the column password_hash holds a string: either a text written as it is, or the
\* digest Bun.password.hash makes of a password with a random salt
PlainText(text) == [password |-> text, salt |-> 0]
BunPasswordHash(password, salt) == [password |-> password, salt |-> salt]
Salts == 1..MaxSalt

\* the users a store is set up with: an admin and a cashier
SeedUsers ==
    (1 :> [username |-> "admin", password_hash |-> PlainText("admin"), role |-> "admin"])
    @@ (2 :> [username |-> "testuser", password_hash |-> PlainText("hashedpassword"),
              role |-> "cashier"])

Init0 ==
    /\ productsTable = [id \in ProductIds |->
                            [stock_quantity |-> InitStock, selling_price |-> SeedPrice(id),
                             category_id |-> 1]]
    /\ categoriesTable = (1 :> [name |-> "Test Category"])
    /\ usersTable = SeedUsers
    /\ transactionsTable = << >>
    /\ transactionItemsTable = << >>
    /\ serial = [transactions |-> 0, items |-> 0, products |-> NumProducts,
                 categories |-> 1, users |-> 2]
    /\ pc = [p \in Procs |-> "idle"]
    /\ local = [p \in Procs |-> IdleLocal]
    /\ restored = [t \in TxIds |-> [q \in ProductIds |-> 0]]
    /\ adjustments = 0
    /\ settingsTable = << >>
    /\ now = 0
    /\ hist = NoHist

\* the time zones the server may be configured with
TzOffsets == 0..MaxTzOffset

\* requests arrive in parallel; the server runs in UTC
Init == Init0 /\ sequential = FALSE /\ tzOffset = 0
\* requests are served one after the other
SeqInit == Init0 /\ sequential = TRUE /\ tzOffset = 0
\* requests are served one after the other, by a server in any time zone
CodeInit == Init0 /\ sequential = TRUE /\ tzOffset \in TzOffsets

\* ------------------------------------------------------ createTransaction
\* the rows counted by generateTransactionCode: gte(created_at, startOfDay) and
\* lte(created_at, endOfDay)
TodaysTransactions ==
    {t \in DOMAIN transactionsTable :
        /\ transactionsTable[t].created_at >= StartOfDay(now)
        /\ transactionsTable[t].created_at <= EndOfDay(now)}

\* generateTransactionCode: `TRX-${dateStr}-${sequence}`, the sequence number being
\* the count of today's transactions + 1
GenerateTransactionCode ==
    [date |-> DateStr(now), sequence |-> Cardinality(TodaysTransactions) + 1]

\* mutant: the stock check is off by one
InsufficientStockOffByOne(product, quantity) == product.stock_quantity + 1 < quantity

\* product[0].stock_quantity < item.quantity
InsufficientStock(product, quantity) == product.stock_quantity < quantity

\* mutant: the price is the one the product was first listed with
UnitPriceAsListed(product) == SeedPrice(product.id)

\* const unitPrice = parseFloat(product[0].selling_price)
UnitPrice(product) == product.selling_price

\* mutant: the line discount is not subtracted
ItemTotalUndiscounted(unitPrice, quantity, discount) == unitPrice * quantity

\* (unitPrice * item.quantity) - item.discount_amount
ItemTotal(unitPrice, quantity, discount) == (unitPrice * quantity) - discount

\* mutant: one unit is taken per line, whatever its quantity
DecrementedStockByOne(product, quantity) == product.stock_quantity - 1

\* stock_quantity: product[0].stock_quantity - item.quantity
DecrementedStock(product, quantity) == product.stock_quantity - quantity

\* creations that have not yet drawn their transaction id
PendingCreates == {q \in Procs : pc[q] \in {"c_code", "c_validate", "c_insert"}}

\* a createTransaction request arrives with one of the given carts
StartCreateWith(p, limit, carts) ==
    /\ MayStart(p)
    /\ serial.transactions + Cardinality(PendingCreates) < limit
    /\ \E cart \in carts :
          local' = [local EXCEPT ![p] = [IdleLocal EXCEPT !.op = "createTransaction",
                                                          !.input = cart]]
    /\ pc' = [pc EXCEPT ![p] = "c_code"]
    /\ hist' = HistStart("createTransaction", 0)
    /\ UNCHANGED <<tables, serial, ghost, env>>

StartCreateUpTo(p, limit) == StartCreateWith(p, limit, Carts)

StartCreate(p) == StartCreateUpTo(p, MaxTx)

CreateGenerateCode(p) ==
    /\ pc[p] = "c_code"
    /\ local' = [local EXCEPT ![p].transactionCode = GenerateTransactionCode,
                              ![p].subtotal = 0,
                              ![p].totalDiscountAmount = local[p].input.transaction_discount,
                              ![p].i = 1]
    /\ pc' = [pc EXCEPT ![p] = IF Len(local[p].input.items) = 0 THEN "c_insert"
                                ELSE "c_validate"]
    /\ UNCHANGED <<tables, serial, ghost, env, hist>>

CreateValidate(p) ==
    /\ pc[p] = "c_validate"
    /\ LET l == local[p]
           item == l.input.items[l.i]
           product == SelectProduct(item.product_id)
       IN  IF ~Found(product)
           THEN /\ pc' = [pc EXCEPT ![p] = "done"]
                /\ local' = [local EXCEPT ![p] = Finish(p, "product_not_found")]
           ELSE IF InsufficientStock(product, item.quantity)
           THEN /\ pc' = [pc EXCEPT ![p] = "done"]
                /\ local' = [local EXCEPT ![p] = Finish(p, "insufficient_stock")]
           ELSE /\ local' = [local EXCEPT
                      ![p].subtotal = l.subtotal
                          + ItemTotal(UnitPrice(product), item.quantity, item.discount_amount),
                      ![p].totalDiscountAmount = l.totalDiscountAmount + item.discount_amount,
                      ![p].i = l.i + 1]
                /\ pc' = [pc EXCEPT ![p] = IF l.i = Len(l.input.items) THEN "c_insert"
                                            ELSE "c_validate"]
    /\ UNCHANGED <<tables, serial, ghost, env, hist>>

CreateInsertTransaction(p) ==
    /\ pc[p] = "c_insert"
    /\ LET l == local[p]
           id == serial.transactions + 1
           taxAmount == 0
           totalAmount == l.subtotal - l.input.transaction_discount + taxAmount
       IN  /\ serial' = [serial EXCEPT !.transactions = id]
           /\ IF \E t \in DOMAIN transactionsTable :
                     transactionsTable[t].transaction_code = l.transactionCode
              THEN \* the unique constraint on transaction_code rejects the row
                   /\ pc' = [pc EXCEPT ![p] = "done"]
                   /\ local' = [local EXCEPT ![p] = Finish(p, "unique_violation")]
                   /\ UNCHANGED transactionsTable
              ELSE /\ transactionsTable' = transactionsTable @@
                         (id :> [transaction_code |-> l.transactionCode,
                                 user_id |-> l.input.user_id,
                                 payment_method |-> l.input.payment_method,
                                 subtotal |-> ToNumeric(l.subtotal),
                                 discount_amount |-> ToNumeric(l.totalDiscountAmount),
                                 tax_amount |-> ToNumeric(taxAmount),
                                 total_amount |-> ToNumeric(totalAmount),
                                 status |-> "completed",
                                 created_at |-> now])
                   /\ IF Len(l.input.items) = 0
                      THEN /\ pc' = [pc EXCEPT ![p] = "done"]
                           /\ local' = [local EXCEPT
                                  ![p] = [Finish(p, "ok") EXCEPT !.transaction = id,
                                                                 !.status = "completed"]]
                      ELSE /\ pc' = [pc EXCEPT ![p] = "c_select"]
                           /\ local' = [local EXCEPT ![p].transaction = id, ![p].i = 1]
    /\ UNCHANGED <<productsTable, transactionItemsTable, ghost, env, hist>>

CreateSelectProduct(p) ==
    /\ pc[p] = "c_select"
    /\ LET l == local[p]
           product == SelectProduct(l.input.items[l.i].product_id)
       IN  IF ~Found(product)
           THEN \* product[0] is undefined: reading selling_price throws a TypeError
                /\ pc' = [pc EXCEPT ![p] = "done"]
                /\ local' = [local EXCEPT ![p] = Finish(p, "type_error")]
           ELSE /\ pc' = [pc EXCEPT ![p] = "c_item"]
                /\ local' = [local EXCEPT ![p].product = product]
    /\ UNCHANGED <<tables, serial, ghost, env, hist>>

CreateInsertItem(p) ==
    /\ pc[p] = "c_item"
    /\ LET l == local[p]
           item == l.input.items[l.i]
           id == serial.items + 1
           unitPrice == UnitPrice(l.product)
       IN  /\ serial' = [serial EXCEPT !.items = id]
           /\ IF item.product_id \notin DOMAIN productsTable
              THEN \* the foreign key product_id -> products.id rejects the row
                   /\ pc' = [pc EXCEPT ![p] = "done"]
                   /\ local' = [local EXCEPT ![p] = Finish(p, "foreign_key_violation")]
                   /\ UNCHANGED transactionItemsTable
              ELSE /\ transactionItemsTable' = transactionItemsTable @@
                         (id :> [transaction_id |-> l.transaction,
                                 product_id |-> item.product_id,
                                 quantity |-> item.quantity,
                                 unit_price |-> ToNumeric(unitPrice),
                                 discount_amount |-> ToNumeric(item.discount_amount),
                                 total_price |->
                                     ToNumeric(ItemTotal(unitPrice, item.quantity,
                                                         item.discount_amount))])
                   /\ pc' = [pc EXCEPT ![p] = "c_stock"]
                   /\ UNCHANGED local
    /\ UNCHANGED <<productsTable, transactionsTable, ghost, env, hist>>

CreateUpdateStock(p) ==
    /\ pc[p] = "c_stock"
    /\ LET l == local[p]
           item == l.input.items[l.i]
       IN  /\ productsTable' =
                 IF item.product_id \in DOMAIN productsTable
                 THEN [productsTable EXCEPT ![item.product_id].stock_quantity =
                           DecrementedStock(l.product, item.quantity)]
                 ELSE productsTable
           /\ IF l.i = Len(l.input.items)
              THEN /\ pc' = [pc EXCEPT ![p] = "done"]
                   /\ local' = [local EXCEPT ![p] = [Finish(p, "ok") EXCEPT
                                                        !.status = "completed"]]
              ELSE /\ pc' = [pc EXCEPT ![p] = "c_select"]
                   /\ local' = [local EXCEPT ![p].i = l.i + 1, ![p].product = NoRow]
    /\ UNCHANGED <<transactionsTable, transactionItemsTable, serial, ghost,
                   env, hist>>

\* ------------------------------------- cancelTransaction, refundTransaction
ReverseOps == {"cancelTransaction", "refundTransaction"}

\* the status the operation sets
Terminal(op) == IF op = "cancelTransaction" THEN "cancelled" ELSE "refunded"

\* mutant: the status is not checked
ReversibleAlways(status) == TRUE

\* mutant: only a cancelled transaction is refused
ReversibleUnlessCancelled(status) == status # "cancelled"

\* existingTransaction.status !== 'completed' throws
Reversible(status) == status = "completed"

\* `Cannot cancel transaction with status: ...` / `Cannot refund transaction with status: ...`
InvalidState(op) == IF op = "cancelTransaction" THEN "cannot_cancel" ELSE "cannot_refund"

\* mutant: one unit is added back per line item, whatever its quantity
RestoredStockByOne(product, quantity) == product.stock_quantity + 1

\* stock_quantity: product[0].stock_quantity + item.quantity
RestoredStock(product, quantity) == product.stock_quantity + quantity

\* mutant: the update also clears the amounts of the transaction
StatusUpdateClearingAmounts(row, op) ==
    [row EXCEPT !.status = Terminal(op), !.total_amount = 0]

\* db.update(transactionsTable).set({ status: 'cancelled' }) / .set({ status: 'refunded' })
StatusUpdate(row, op) == [row EXCEPT !.status = Terminal(op)]

StartReverse(p) ==
    /\ MayStart(p)
    /\ \E op \in ReverseOps, id \in TxIds :
          /\ local' = [local EXCEPT ![p] = [IdleLocal EXCEPT !.op = op, !.id = id]]
          /\ hist' = HistStart(op, id)
    /\ pc' = [pc EXCEPT ![p] = "r_fetch"]
    /\ UNCHANGED <<tables, serial, ghost, env>>

\* getTransactionById and the two checks on its result
ReverseFetch(p) ==
    /\ pc[p] = "r_fetch"
    /\ LET id == local[p].id
       IN  IF id \notin DOMAIN transactionsTable
           THEN /\ pc' = [pc EXCEPT ![p] = "done"]
                /\ local' = [local EXCEPT ![p] = Finish(p, "not_found")]
           ELSE IF ~Reversible(transactionsTable[id].status)
           THEN /\ pc' = [pc EXCEPT ![p] = "done"]
                /\ local' = [local EXCEPT ![p] = Finish(p, InvalidState(local[p].op))]
           ELSE /\ pc' = [pc EXCEPT ![p] = "r_items"]
                /\ UNCHANGED local
    /\ UNCHANGED <<tables, serial, ghost, env, hist>>

\* getTransactionItems
ReverseGetItems(p) ==
    /\ pc[p] = "r_items"
    /\ LET ids == ItemIdsOf(local[p].id)
           items == [k \in 1..Len(ids) |->
                        [product_id |-> transactionItemsTable[ids[k]].product_id,
                         quantity |-> transactionItemsTable[ids[k]].quantity]]
       IN  /\ local' = [local EXCEPT ![p].items = items, ![p].i = 1]
           /\ pc' = [pc EXCEPT ![p] = IF Len(items) = 0 THEN "r_status" ELSE "r_select"]
    /\ UNCHANGED <<tables, serial, ghost, env, hist>>

ReverseSelectProduct(p) ==
    /\ pc[p] = "r_select"
    /\ LET l == local[p]
           product == SelectProduct(l.items[l.i].product_id)
       IN  IF Found(product)
           THEN /\ pc' = [pc EXCEPT ![p] = "r_stock"]
                /\ local' = [local EXCEPT ![p].product = product]
           ELSE /\ pc' = [pc EXCEPT ![p] = IF l.i = Len(l.items) THEN "r_status"
                                            ELSE "r_select"]
                /\ local' = [local EXCEPT ![p].i = l.i + 1]
    /\ UNCHANGED <<tables, serial, ghost, env, hist>>

ReverseUpdateStock(p) ==
    /\ pc[p] = "r_stock"
    /\ LET l == local[p]
           item == l.items[l.i]
       IN  /\ IF item.product_id \in DOMAIN productsTable
              THEN /\ productsTable' =
                         [productsTable EXCEPT ![item.product_id].stock_quantity =
                              RestoredStock(l.product, item.quantity)]
                   /\ restored' = [restored EXCEPT ![l.id][item.product_id] =
                                       @ + RestoredStock(l.product, item.quantity)
                                         - l.product.stock_quantity]
              ELSE UNCHANGED <<productsTable, restored>>
           /\ pc' = [pc EXCEPT ![p] = IF l.i = Len(l.items) THEN "r_status" ELSE "r_select"]
           /\ local' = [local EXCEPT ![p].i = l.i + 1, ![p].product = NoRow]
    /\ UNCHANGED <<transactionsTable, transactionItemsTable, serial, adjustments,
                   env, hist>>

ReverseSetStatus(p) ==
    /\ pc[p] = "r_status"
    /\ LET l == local[p]
       IN  IF l.id \in DOMAIN transactionsTable
           THEN /\ transactionsTable' =
                      [transactionsTable EXCEPT ![l.id] = StatusUpdate(@, l.op)]
                /\ local' = [local EXCEPT ![p] = [Finish(p, "ok") EXCEPT
                                                     !.status = Terminal(l.op)]]
           ELSE \* results[0] is undefined: reading subtotal throws a TypeError
                /\ local' = [local EXCEPT ![p] = Finish(p, "type_error")]
                /\ UNCHANGED transactionsTable
    /\ pc' = [pc EXCEPT ![p] = "done"]
    /\ UNCHANGED <<productsTable, transactionItemsTable, serial, ghost, env, hist>>

\* ------------------- getTransactions, getTransactionById, getTransactionItems
\* getTransactionsQuerySchema; an optional field that is not given is Absent
Queries ==
    [start_date : {Absent, 1}, end_date : {Absent, 2}, user_id : {Absent, 0, 1},
     status : {"absent", "completed"}, limit : {Absent, 1, 2}, offset : {Absent, 0, 1}]

\* if (query?.field): the field is given and is not 0 (a date string is never empty here)
Truthy(value) == value # Absent /\ value # 0

\* the conditions pushed for a query, as a predicate on a row
Conditions(query, row) ==
    /\ query.start_date # Absent => row.created_at >= query.start_date
    /\ query.end_date # Absent => row.created_at <= query.end_date
    /\ Truthy(query.user_id) => row.user_id = query.user_id
    /\ query.status # "absent" => row.status = query.status

\* the orders in which ORDER BY created_at DESC may return a set of rows
DescendingOrders(ids) ==
    {order \in [1..Cardinality(ids) -> ids] :
        /\ \A i, j \in 1..Cardinality(ids) : i # j => order[i] # order[j]
        /\ \A i, j \in 1..Cardinality(ids) :
              i < j => transactionsTable[order[i]].created_at
                          >= transactionsTable[order[j]].created_at}

Min(a, b) == IF a <= b THEN a ELSE b

\* the four branches on query?.limit and query?.offset
Page(order, query) ==
    IF Truthy(query.limit) /\ Truthy(query.offset)
    THEN SubSeq(order, query.offset + 1, Min(Len(order), query.offset + query.limit))
    ELSE IF Truthy(query.limit)
    THEN SubSeq(order, 1, Min(Len(order), query.limit))
    ELSE IF Truthy(query.offset)
    THEN SubSeq(order, query.offset + 1, Len(order))
    ELSE order

StartGetTransactions(p) ==
    /\ MayStart(p)
    /\ \E query \in Queries :
          local' = [local EXCEPT ![p] = [IdleLocal EXCEPT !.op = "getTransactions",
                                                          !.query = query]]
    /\ pc' = [pc EXCEPT ![p] = "g_list"]
    /\ hist' = HistStart("getTransactions", 0)
    /\ UNCHANGED <<tables, serial, ghost, env>>

\* the one select of getTransactions; the rows are returned by id
GetTransactions(p) ==
    /\ pc[p] = "g_list"
    /\ LET query == local[p].query
           ids == {t \in DOMAIN transactionsTable : Conditions(query, transactionsTable[t])}
       IN  \E order \in DescendingOrders(ids) :
              local' = [local EXCEPT ![p] = [Finish(p, "ok") EXCEPT
                                               !.query = query,
                                               !.rows = Page(order, query)]]
    /\ pc' = [pc EXCEPT ![p] = "done"]
    /\ UNCHANGED <<tables, serial, ghost, env, hist>>

StartGetTransaction(p) ==
    /\ MayStart(p)
    /\ \E op \in {"getTransactionById", "getTransactionItems"}, id \in TxIds :
          local' = [local EXCEPT ![p] = [IdleLocal EXCEPT !.op = op, !.id = id]]
    /\ pc' = [pc EXCEPT ![p] = "g_get"]
    /\ hist' = HistStart("getTransaction", 0)
    /\ UNCHANGED <<tables, serial, ghost, env>>

\* the select of getTransactionById (null when there is no row) or of
\* getTransactionItems; the rows are returned by id
GetTransaction(p) ==
    /\ pc[p] = "g_get"
    /\ LET l == local[p]
       IN  local' = [local EXCEPT ![p] =
              IF l.op = "getTransactionItems"
              THEN [Finish(p, "ok") EXCEPT !.rows = ItemIdsOf(l.id)]
              ELSE IF l.id \in DOMAIN transactionsTable
              THEN [Finish(p, "ok") EXCEPT !.rows = <<l.id>>]
              ELSE Finish(p, "null")]
    /\ pc' = [pc EXCEPT ![p] = "done"]
    /\ UNCHANGED <<tables, serial, ghost, env, hist>>

\* ----------------------------------------------------- updateProductStock
\* mutant: the result is not clamped at 0
NewStockUnclamped(current, quantityChange) == current + quantityChange

\* Math.max(0, currentProduct.stock_quantity + quantityChange)
NewStockQuantity(current, quantityChange) == Max(0, current + quantityChange)

StartStock(p) ==
    /\ MayStart(p)
    /\ sequential \/ adjustments < MaxAdjust
    /\ \E id \in ProductIds, delta \in Deltas :
          /\ delta > 0 => (id \in DOMAIN productsTable
                             /\ productsTable[id].stock_quantity < MaxStock)
          /\ local' = [local EXCEPT ![p] = [IdleLocal EXCEPT !.op = "updateProductStock",
                                                             !.id = id, !.delta = delta]]
    /\ pc' = [pc EXCEPT ![p] = "s_read"]
    /\ hist' = HistStart("updateProductStock", 0)
    /\ adjustments' = IF sequential THEN adjustments ELSE adjustments + 1
    /\ UNCHANGED <<tables, serial, restored, env>>

StockRead(p) ==
    /\ pc[p] = "s_read"
    /\ LET l == local[p]
           currentProduct == SelectProduct(l.id)
       IN  IF ~Found(currentProduct)
           THEN /\ pc' = [pc EXCEPT ![p] = "done"]
                /\ local' = [local EXCEPT ![p] = Finish(p, "product_not_found")]
           ELSE /\ pc' = [pc EXCEPT ![p] = "s_write"]
                /\ local' = [local EXCEPT ![p].newStock =
                                 NewStockQuantity(currentProduct.stock_quantity, l.delta)]
    /\ UNCHANGED <<tables, serial, ghost, env, hist>>

StockWrite(p) ==
    /\ pc[p] = "s_write"
    /\ LET l == local[p]
       IN  IF l.id \in DOMAIN productsTable
           THEN /\ productsTable' = [productsTable EXCEPT ![l.id].stock_quantity = l.newStock]
                /\ local' = [local EXCEPT ![p] = Finish(p, "ok")]
           ELSE /\ local' = [local EXCEPT ![p] = Finish(p, "product_not_found")]
                /\ UNCHANGED productsTable
    /\ pc' = [pc EXCEPT ![p] = "done"]
    /\ UNCHANGED <<transactionsTable, transactionItemsTable, serial, ghost,
                   env, hist>>

\* ----------------------------------------------------------- deleteProduct
\* a lookup that finds no line item
NoTransactionItems(id) == FALSE

\* select from transaction_items where product_id = id limit 1
HasTransactionItems(id) ==
    \E k \in DOMAIN transactionItemsTable : transactionItemsTable[k].product_id = id

StartDelete(p) ==
    /\ MayStart(p)
    /\ \E id \in ProductIds :
          local' = [local EXCEPT ![p] = [IdleLocal EXCEPT !.op = "deleteProduct", !.id = id]]
    /\ pc' = [pc EXCEPT ![p] = "d_check"]
    /\ hist' = HistStart("deleteProduct", 0)
    /\ UNCHANGED <<tables, serial, ghost, env>>

DeleteCheck(p) ==
    /\ pc[p] = "d_check"
    /\ IF HasTransactionItems(local[p].id)
       THEN /\ pc' = [pc EXCEPT ![p] = "done"]
            /\ local' = [local EXCEPT ![p] = Finish(p, "has_transaction_history")]
       ELSE /\ pc' = [pc EXCEPT ![p] = "d_delete"]
            /\ UNCHANGED local
    /\ UNCHANGED <<tables, serial, ghost, env, hist>>

DeleteExec(p) ==
    /\ pc[p] = "d_delete"
    /\ LET id == local[p].id
       IN  IF id \notin DOMAIN productsTable
           THEN /\ local' = [local EXCEPT ![p] = Finish(p, "false")]
                /\ UNCHANGED productsTable
           ELSE IF HasTransactionItems(id)
           THEN \* the foreign key transaction_items.product_id rejects the delete
                /\ local' = [local EXCEPT ![p] = Finish(p, "foreign_key_violation")]
                /\ UNCHANGED productsTable
           ELSE /\ productsTable' = [q \in DOMAIN productsTable \ {id} |-> productsTable[q]]
                /\ local' = [local EXCEPT ![p] = Finish(p, "true")]
    /\ pc' = [pc EXCEPT ![p] = "done"]
    /\ UNCHANGED <<transactionsTable, transactionItemsTable, serial, ghost,
                   env, hist>>

\* ------------------------------------------------ createProduct, updateProduct
\* the foreign key products.category_id -> categories.id accepts the value
CategoryAccepted(category_id) ==
    category_id \in {Absent, Null} \/ category_id \in DOMAIN categoriesTable

StartCreateProduct(p) ==
    /\ MayStart(p)
    /\ serial.products < MaxProducts
    /\ \E input \in [id : {0}, selling_price : NewPrices, category_id : CategoryInputs,
                      stock_quantity : {InitStock}] :
          local' = [local EXCEPT ![p] = [IdleLocal EXCEPT !.op = "createProduct",
                                                          !.productInput = input]]
    /\ pc' = [pc EXCEPT ![p] = "p_insert"]
    /\ hist' = HistStart("createProduct", 0)
    /\ UNCHANGED <<tables, serial, ghost, env>>

\* db.insert(productsTable).values({...}).returning()
CreateProduct(p) ==
    /\ pc[p] = "p_insert"
    /\ LET input == local[p].productInput
           id == serial.products + 1
       IN  /\ serial' = [serial EXCEPT !.products = id]
           /\ IF CategoryAccepted(input.category_id)
              THEN /\ productsTable' = productsTable @@
                         (id :> [stock_quantity |-> input.stock_quantity,
                                 selling_price |-> ToNumeric(input.selling_price),
                                 category_id |-> input.category_id])
                   /\ local' = [local EXCEPT ![p] = [Finish(p, "ok") EXCEPT !.id = id]]
              ELSE /\ local' = [local EXCEPT ![p] = Finish(p, "foreign_key_violation")]
                   /\ UNCHANGED productsTable
    /\ pc' = [pc EXCEPT ![p] = "done"]
    /\ UNCHANGED <<transactionsTable, transactionItemsTable, ghost, env, hist>>

\* a request to updateProduct with one of the given inputs
StartUpdateProductWith(p, inputs) ==
    /\ MayStart(p)
    /\ \E input \in inputs :
          local' = [local EXCEPT ![p] = [IdleLocal EXCEPT !.op = "updateProduct",
                                                          !.id = input.id,
                                                          !.productInput = input]]
    /\ pc' = [pc EXCEPT ![p] = "p_update"]
    /\ hist' = HistStart("updateProduct", 0)
    /\ UNCHANGED <<tables, serial, ghost, env>>

\* updateData: the fields of the input that are not undefined
UpdatedProduct(row, input) ==
    [row EXCEPT
        !.selling_price = IF input.selling_price = Absent THEN @
                          ELSE ToNumeric(input.selling_price),
        !.category_id = IF input.category_id = Absent THEN @ ELSE input.category_id,
        !.stock_quantity = IF input.stock_quantity = Absent THEN @
                           ELSE input.stock_quantity]

\* db.update(productsTable).set(updateData).where(eq(productsTable.id, input.id))
UpdateProduct(p) ==
    /\ pc[p] = "p_update"
    /\ LET input == local[p].productInput
       IN  IF /\ input.selling_price = Absent /\ input.category_id = Absent
              /\ input.stock_quantity = Absent
           THEN \* set() with an empty object throws 'No values to set'
                /\ local' = [local EXCEPT ![p] = Finish(p, "no_values_to_set")]
                /\ UNCHANGED productsTable
           ELSE IF input.id \notin DOMAIN productsTable
           THEN /\ local' = [local EXCEPT ![p] = Finish(p, "product_not_found")]
                /\ UNCHANGED productsTable
           ELSE IF ~CategoryAccepted(input.category_id)
           THEN /\ local' = [local EXCEPT ![p] = Finish(p, "foreign_key_violation")]
                /\ UNCHANGED productsTable
           ELSE /\ productsTable' =
                      [productsTable EXCEPT ![input.id] = UpdatedProduct(@, input)]
                /\ local' = [local EXCEPT ![p] = Finish(p, "ok")]
    /\ pc' = [pc EXCEPT ![p] = "done"]
    /\ UNCHANGED <<transactionsTable, transactionItemsTable, serial, ghost, env, hist>>

\* ------------------------------------------------ createCategory, deleteCategory
StartCreateCategory(p) ==
    /\ MayStart(p)
    /\ serial.categories < MaxCategories
    /\ local' = [local EXCEPT ![p] = [IdleLocal EXCEPT !.op = "createCategory"]]
    /\ pc' = [pc EXCEPT ![p] = "c_insert"]
    /\ hist' = HistStart("createCategory", 0)
    /\ UNCHANGED <<tables, serial, ghost, env>>

\* db.insert(categoriesTable).values({...}).returning()
CreateCategory(p) ==
    /\ pc[p] = "c_insert"
    /\ LET id == serial.categories + 1
       IN  /\ serial' = [serial EXCEPT !.categories = id]
           /\ categoriesTable' = categoriesTable @@ (id :> [name |-> "New Category"])
           /\ local' = [local EXCEPT ![p] = [Finish(p, "ok") EXCEPT !.id = id]]
    /\ pc' = [pc EXCEPT ![p] = "done"]
    /\ UNCHANGED <<tables, ghost, sequential, settingsTable, now, tzOffset, usersTable,
                   hist>>

\* a count that finds no product at all
ProductCountOfNone(id) == 0

\* select count() from products where category_id = id
ProductCount(id) ==
    Cardinality({q \in DOMAIN productsTable : productsTable[q].category_id = id})

StartDeleteCategory(p) ==
    /\ MayStart(p)
    /\ \E id \in 1..MaxCategories :
          local' = [local EXCEPT ![p] = [IdleLocal EXCEPT !.op = "deleteCategory",
                                                          !.id = id]]
    /\ pc' = [pc EXCEPT ![p] = "c_get"]
    /\ hist' = HistStart("deleteCategory", 0)
    /\ UNCHANGED <<tables, serial, ghost, env>>

\* const existing = await getCategoryById(id)
DeleteCategoryGet(p) ==
    /\ pc[p] = "c_get"
    /\ IF local[p].id \notin DOMAIN categoriesTable
       THEN /\ pc' = [pc EXCEPT ![p] = "done"]
            /\ local' = [local EXCEPT ![p] = Finish(p, "false")]
       ELSE /\ pc' = [pc EXCEPT ![p] = "c_count"]
            /\ UNCHANGED local
    /\ UNCHANGED <<tables, serial, ghost, env, hist>>

DeleteCategoryCount(p) ==
    /\ pc[p] = "c_count"
    /\ IF ProductCount(local[p].id) > 0
       THEN /\ pc' = [pc EXCEPT ![p] = "done"]
            /\ local' = [local EXCEPT ![p] = Finish(p, "has_associated_products")]
       ELSE /\ pc' = [pc EXCEPT ![p] = "c_delete"]
            /\ UNCHANGED local
    /\ UNCHANGED <<tables, serial, ghost, env, hist>>

\* db.delete(categoriesTable).where(eq(categoriesTable.id, id))
DeleteCategoryExec(p) ==
    /\ pc[p] = "c_delete"
    /\ LET id == local[p].id
       IN  IF \E q \in DOMAIN productsTable : productsTable[q].category_id = id
           THEN \* the foreign key products.category_id rejects the delete
                /\ local' = [local EXCEPT ![p] = Finish(p, "foreign_key_violation")]
                /\ UNCHANGED categoriesTable
           ELSE /\ categoriesTable' =
                      [c \in DOMAIN categoriesTable \ {id} |-> categoriesTable[c]]
                /\ local' = [local EXCEPT ![p] = Finish(p, "true")]
    /\ pc' = [pc EXCEPT ![p] = "done"]
    /\ UNCHANGED <<tables, serial, ghost, sequential, settingsTable, now, tzOffset,
                   usersTable, hist>>

\* ------------------------------------------- createUser, deleteUser, login
UserInputs ==
    [username : {"testuser", "newuser"}, password : {"password123"},
     role : {"admin", "cashier"}]
LoginInputs ==
    [username : {"admin", "testuser", "newuser"}, password : {"password123", "hashedpassword"},
     role : {"none"}]
TokenInputs == [prefix : {"token", "bearer"}, id : 1..MaxUsers, issued_at : {0}]

StartCreateUser(p) ==
    /\ MayStart(p)
    /\ serial.users < MaxUsers
    /\ \E input \in UserInputs :
          local' = [local EXCEPT ![p] = [IdleLocal EXCEPT !.op = "createUser",
                                                          !.userInput = input]]
    /\ pc' = [pc EXCEPT ![p] = "u_insert"]
    /\ hist' = HistStart("createUser", 0)
    /\ UNCHANGED <<tables, serial, ghost, env>>

\* passwordHash = await Bun.password.hash(input.password); db.insert(usersTable)
CreateUser(p) ==
    /\ pc[p] = "u_insert"
    /\ LET input == local[p].userInput
           id == serial.users + 1
       IN  /\ serial' = [serial EXCEPT !.users = id]
           /\ IF \E u \in DOMAIN usersTable : usersTable[u].username = input.username
              THEN \* users.username is unique
                   /\ local' = [local EXCEPT ![p] = Finish(p, "unique_violation")]
                   /\ UNCHANGED usersTable
              ELSE \E salt \in Salts :
                   /\ usersTable' = usersTable @@
                         (id :> [username |-> input.username,
                                 password_hash |-> BunPasswordHash(input.password, salt),
                                 role |-> input.role])
                   /\ local' = [local EXCEPT ![p] = [Finish(p, "ok") EXCEPT !.id = id]]
    /\ pc' = [pc EXCEPT ![p] = "done"]
    /\ UNCHANGED <<tables, ghost, sequential, settingsTable, now, tzOffset,
                   categoriesTable, hist>>

\* select count() from users where role = 'admin'
AdminCount == Cardinality({u \in DOMAIN usersTable : usersTable[u].role = "admin"})

StartDeleteUser(p) ==
    /\ MayStart(p)
    /\ \E id \in 1..MaxUsers :
          local' = [local EXCEPT ![p] = [IdleLocal EXCEPT !.op = "deleteUser", !.id = id]]
    /\ pc' = [pc EXCEPT ![p] = "u_count"]
    /\ hist' = HistStart("deleteUser", 0)
    /\ UNCHANGED <<tables, serial, ghost, env>>

DeleteUserCount(p) ==
    /\ pc[p] = "u_count"
    /\ local' = [local EXCEPT ![p].adminCount = AdminCount]
    /\ pc' = [pc EXCEPT ![p] = "u_get"]
    /\ UNCHANGED <<tables, serial, ghost, env, hist>>

\* const userToDelete = await getUserById(id), and the two tests that follow it
DeleteUserGet(p) ==
    /\ pc[p] = "u_get"
    /\ LET id == local[p].id
       IN  IF id \notin DOMAIN usersTable
           THEN /\ pc' = [pc EXCEPT ![p] = "done"]
                /\ local' = [local EXCEPT ![p] = Finish(p, "false")]
           ELSE IF usersTable[id].role = "admin" /\ local[p].adminCount <= 1
           THEN /\ pc' = [pc EXCEPT ![p] = "done"]
                /\ local' = [local EXCEPT ![p] = Finish(p, "last_admin")]
           ELSE /\ pc' = [pc EXCEPT ![p] = "u_delete"]
                /\ UNCHANGED local
    /\ UNCHANGED <<tables, serial, ghost, env, hist>>

\* db.delete(usersTable).where(eq(usersTable.id, id)).returning()
DeleteUserExec(p) ==
    /\ pc[p] = "u_delete"
    /\ LET id == local[p].id
       IN  IF \E t \in DOMAIN transactionsTable : transactionsTable[t].user_id = id
           THEN \* the foreign key transactions.user_id rejects the delete
                /\ local' = [local EXCEPT ![p] = Finish(p, "foreign_key_violation")]
                /\ UNCHANGED usersTable
           ELSE IF id \notin DOMAIN usersTable
           THEN /\ local' = [local EXCEPT ![p] = Finish(p, "false")]
                /\ UNCHANGED usersTable
           ELSE /\ usersTable' = [u \in DOMAIN usersTable \ {id} |-> usersTable[u]]
                /\ local' = [local EXCEPT ![p] = Finish(p, "true")]
    /\ pc' = [pc EXCEPT ![p] = "done"]
    /\ UNCHANGED <<tables, serial, ghost, sequential, settingsTable, now, tzOffset,
                   categoriesTable, hist>>

StartLogin(p) ==
    /\ MayStart(p)
    /\ \E input \in LoginInputs :
          local' = [local EXCEPT ![p] = [IdleLocal EXCEPT !.op = "login",
                                                          !.userInput = input]]
    /\ pc' = [pc EXCEPT ![p] = "l_select"]
    /\ hist' = HistStart("login", 0)
    /\ UNCHANGED <<tables, serial, ghost, env>>

\* user.password_hash !== input.password
PasswordMatches(password_hash, password) == password_hash = PlainText(password)

\* select from users where username = input.username, and what follows it
Login(p) ==
    /\ pc[p] = "l_select"
    /\ LET input == local[p].userInput
           users == {u \in DOMAIN usersTable : usersTable[u].username = input.username}
       IN  IF users = {}
           THEN local' = [local EXCEPT ![p] = Finish(p, "invalid_credentials")]
           ELSE LET id == CHOOSE u \in users : TRUE
                    user == usersTable[id]
                IN  IF ~PasswordMatches(user.password_hash, input.password)
                    THEN local' = [local EXCEPT ![p] = Finish(p, "invalid_credentials")]
                    ELSE local' = [local EXCEPT ![p] =
                            [Finish(p, "ok") EXCEPT
                                !.user = [id |-> id, username |-> user.username,
                                          role |-> user.role],
                                !.token = [prefix |-> "token", id |-> id,
                                           issued_at |-> now]]]
    /\ pc' = [pc EXCEPT ![p] = "done"]
    /\ UNCHANGED <<tables, serial, ghost, env, hist>>

StartVerifyToken(p) ==
    /\ MayStart(p)
    /\ \E token \in TokenInputs :
          local' = [local EXCEPT ![p] = [IdleLocal EXCEPT !.op = "verifyToken",
                                                          !.token = token]]
    /\ pc' = [pc EXCEPT ![p] = "v_select"]
    /\ hist' = HistStart("verifyToken", 0)
    /\ UNCHANGED <<tables, serial, ghost, env>>

\* the user a token of the form token_<id>_<time> stands for, if any
VerifiedUser(token) ==
    IF token.prefix = "token" /\ token.id \in DOMAIN usersTable THEN token.id ELSE Absent

VerifyToken(p) ==
    /\ pc[p] = "v_select"
    /\ LET id == VerifiedUser(local[p].token)
       IN  local' = [local EXCEPT ![p] =
                IF id = Absent
                THEN [Finish(p, "null") EXCEPT !.token = local[p].token]
                ELSE [Finish(p, "ok") EXCEPT
                         !.token = local[p].token,
                         !.user = [id |-> id, username |-> usersTable[id].username,
                                   role |-> usersTable[id].role]]]
    /\ pc' = [pc EXCEPT ![p] = "done"]
    /\ UNCHANGED <<tables, serial, ghost, env, hist>>

\* ------------------------------------ updateSetting, initializeDefaultSettings
\* defaultSettings of initializeDefaultSettings
DefaultSettings ==
    << [key |-> "store_name", value |-> "My Store"],
       [key |-> "tax_rate", value |-> "0.10"],
       [key |-> "currency", value |-> "USD"],
       [key |-> "receipt_header", value |-> "Thank you for your purchase!"],
       [key |-> "receipt_footer", value |-> "Visit us again!"],
       [key |-> "auto_print_receipt", value |-> "true"],
       [key |-> "low_stock_alert", value |-> "true"] >>

\* the settings a user sends to updateSetting
SettingInputs == [key : {"tax_rate"}, value : {"0", "0.20"}]

StartUpdateSetting(p) ==
    /\ MayStart(p)
    /\ \E input \in SettingInputs :
          local' = [local EXCEPT ![p] = [IdleLocal EXCEPT !.op = "updateSetting",
                                                          !.setting = input]]
    /\ pc' = [pc EXCEPT ![p] = "u_update"]
    /\ hist' = HistStart("updateSetting", 0)
    /\ UNCHANGED <<tables, serial, ghost, env>>

\* db.update(settingsTable).set({ value }).where(eq(settingsTable.key, input.key))
UpdateSettingUpdate(p) ==
    /\ pc[p] = "u_update"
    /\ LET input == local[p].setting
       IN  IF input.key \in DOMAIN settingsTable
           THEN /\ settingsTable' = [settingsTable EXCEPT ![input.key] = input.value]
                /\ pc' = [pc EXCEPT ![p] = "done"]
                /\ local' = [local EXCEPT ![p] = Finish(p, "ok")]
           ELSE /\ pc' = [pc EXCEPT ![p] = "u_insert"]
                /\ UNCHANGED <<settingsTable, local>>
    /\ UNCHANGED <<tables, serial, ghost, sequential, now, tzOffset, usersTable,
                   categoriesTable, hist>>

\* db.insert(settingsTable).values({ key, value })
InsertSetting(setting) ==
    IF setting.key \in DOMAIN settingsTable
    THEN settingsTable   \* the unique constraint on key rejects the row
    ELSE settingsTable @@ (setting.key :> setting.value)

UpdateSettingInsert(p) ==
    /\ pc[p] = "u_insert"
    /\ LET input == local[p].setting
       IN  /\ settingsTable' = InsertSetting(input)
           /\ local' = [local EXCEPT ![p] =
                            Finish(p, IF input.key \in DOMAIN settingsTable
                                      THEN "unique_violation" ELSE "ok")]
    /\ pc' = [pc EXCEPT ![p] = "done"]
    /\ UNCHANGED <<tables, serial, ghost, sequential, now, tzOffset, usersTable,
                   categoriesTable, hist>>

StartInitializeDefaultSettings(p) ==
    /\ MayStart(p)
    /\ local' = [local EXCEPT ![p] = [IdleLocal EXCEPT !.op = "initializeDefaultSettings",
                                                      !.i = 1]]
    /\ pc' = [pc EXCEPT ![p] = "i_get"]
    /\ hist' = HistStart("initializeDefaultSettings", 0)
    /\ UNCHANGED <<tables, serial, ghost, env>>

\* const existing = await getSettingByKey(setting.key)
InitializeGetSetting(p) ==
    /\ pc[p] = "i_get"
    /\ LET l == local[p]
           setting == DefaultSettings[l.i]
       IN  IF setting.key \notin DOMAIN settingsTable
           THEN /\ pc' = [pc EXCEPT ![p] = "i_insert"]
                /\ UNCHANGED local
           ELSE IF l.i = Len(DefaultSettings)
           THEN /\ pc' = [pc EXCEPT ![p] = "done"]
                /\ local' = [local EXCEPT ![p] = Finish(p, "ok")]
           ELSE /\ local' = [local EXCEPT ![p].i = l.i + 1]
                /\ UNCHANGED pc
    /\ UNCHANGED <<tables, serial, ghost, env, hist>>

\* if (!existing) await db.insert(settingsTable).values(setting)
InitializeInsertSetting(p) ==
    /\ pc[p] = "i_insert"
    /\ LET l == local[p]
           setting == DefaultSettings[l.i]
       IN  /\ settingsTable' = InsertSetting(setting)
           /\ IF setting.key \in DOMAIN settingsTable
              THEN /\ pc' = [pc EXCEPT ![p] = "done"]
                   /\ local' = [local EXCEPT ![p] = Finish(p, "unique_violation")]
              ELSE IF l.i = Len(DefaultSettings)
              THEN /\ pc' = [pc EXCEPT ![p] = "done"]
                   /\ local' = [local EXCEPT ![p] = Finish(p, "ok")]
              ELSE /\ pc' = [pc EXCEPT ![p] = "i_get"]
                   /\ local' = [local EXCEPT ![p].i = l.i + 1]
    /\ UNCHANGED <<tables, serial, ghost, sequential, now, tzOffset, usersTable,
                   categoriesTable, hist>>

\* ------------------------------------------- resetAllData, exportData, importData
\* the settings table after initializeDefaultSettings has run on an empty table
DefaultSettingsTable ==
    [key \in {DefaultSettings[i].key : i \in DOMAIN DefaultSettings} |->
        DefaultSettings[CHOOSE i \in DOMAIN DefaultSettings :
                            DefaultSettings[i].key = key].value]

\* db.select().from(table): the rows with their ids, in the order of their ids
ExportRows(table) ==
    LET ids == SortedSeq(DOMAIN table)
    IN  [i \in 1..Len(ids) |-> [id |-> ids[i]] @@ table[ids[i]]]

ImportedSetting == [key |-> "imported_setting", value |-> "imported_value"]

\* db.select().from(settingsTable): the default settings first, as they are inserted first
ExportSettings(settings) ==
    LET known == DefaultSettings \o <<ImportedSetting>>
        keys == SelectSeq([i \in DOMAIN known |-> known[i].key],
                          LAMBDA key : key \in DOMAIN settings)
    IN  [i \in 1..Len(keys) |-> [key |-> keys[i], value |-> settings[keys[i]]]]

\* the object exportData returns for a store with the given tables
ExportedData(store) ==
    [kind |-> "object", users |-> ExportRows(store.users),
     categories |-> ExportRows(store.categories), products |-> ExportRows(store.products),
     transactions |-> ExportRows(store.transactions),
     transaction_items |-> ExportRows(store.items),
     settings |-> ExportSettings(store.settings)]

StartExportData(p) ==
    /\ MayStart(p)
    /\ local' = [local EXCEPT ![p] = [IdleLocal EXCEPT !.op = "exportData"]]
    /\ pc' = [pc EXCEPT ![p] = "e_select"]
    /\ hist' = HistStart("exportData", 0)
    /\ UNCHANGED <<tables, serial, ghost, env>>

\* the six selects of Promise.all; no other request runs between them
ExportData(p) ==
    /\ pc[p] = "e_select"
    /\ local' = [local EXCEPT ![p] = [Finish(p, "ok") EXCEPT !.data = ExportedData(Snapshot)]]
    /\ pc' = [pc EXCEPT ![p] = "done"]
    /\ UNCHANGED <<tables, serial, ghost, env, hist>>

\* the arguments of importData in tests/settings.test.ts, and one with a default key
ImportInputs ==
    LET object == [NoData EXCEPT !.kind = "object"]
        user == [id |-> 0, username |-> "imported_user",
                 password_hash |-> PlainText("imported_hash"), role |-> "cashier"]
        category == [id |-> 0, name |-> "Imported Category"]
    IN  { [NoData EXCEPT !.kind = "null"],
          [NoData EXCEPT !.kind = "string"],
          object,
          [object EXCEPT !.users = <<user>>, !.categories = <<category>>,
                         !.settings = <<ImportedSetting>>],
          [object EXCEPT !.users = <<user>>, !.settings = <<DefaultSettings[2]>>] }

\* a request to importData with the given argument
StartImportWith(p, data) ==
    /\ serial.users < MaxUsers
    /\ local' = [local EXCEPT ![p] = [IdleLocal EXCEPT !.op = "importData",
                                                      !.data = data]]
    /\ pc' = [pc EXCEPT ![p] = "m_reset"]
    /\ hist' = HistStart("importData", 0)
    /\ UNCHANGED <<tables, serial, ghost, env>>

StartImportData(p) == MayStart(p) /\ \E data \in ImportInputs : StartImportWith(p, data)

\* importData(exportData()): the caller passes on what exportData has just returned
StartImportExported(p) ==
    /\ pc[p] = "done" /\ local[p].op = "exportData"
    /\ StartImportWith(p, local[p].data)

\* a validation that accepts everything
AnyStructure(data) == TRUE

\* !(!data || typeof data !== 'object')
ValidStructure(data) == data.kind = "object"

\* the validation, and resetAllData: the six deletes and initializeDefaultSettings,
\* which run without another request between them
ImportReset(p) ==
    /\ pc[p] = "m_reset"
    /\ IF ~ValidStructure(local[p].data)
       THEN /\ local' = [local EXCEPT ![p] = Finish(p, "invalid_data_structure")]
            /\ pc' = [pc EXCEPT ![p] = "done"]
            /\ UNCHANGED <<tables, usersTable, categoriesTable, settingsTable>>
       ELSE /\ transactionItemsTable' = << >>
            /\ transactionsTable' = << >>
            /\ productsTable' = << >>
            /\ categoriesTable' = << >>
            /\ usersTable' = << >>
            /\ settingsTable' = DefaultSettingsTable
            /\ local' = [local EXCEPT ![p].i = 1]
            /\ pc' = [pc EXCEPT ![p] = "m_users"]
    /\ UNCHANGED <<serial, ghost, sequential, now, tzOffset, hist>>

\* the loop over one array is at its end: go on with the next array, or return
ImportAdvance(p, rows, next) ==
    /\ local[p].i > Len(rows)
    /\ IF next = "done"
       THEN local' = [local EXCEPT ![p] = Finish(p, "ok")]
       ELSE local' = [local EXCEPT ![p].i = 1]
    /\ pc' = [pc EXCEPT ![p] = next]
    /\ UNCHANGED <<tables, serial, ghost, env, hist>>

\* the insert of one row has succeeded or has thrown
ImportInserted(p, accepted, violation) ==
    /\ local' = [local EXCEPT ![p] = IF accepted THEN [@ EXCEPT !.i = @ + 1]
                                      ELSE Finish(p, violation)]
    /\ pc' = [pc EXCEPT ![p] = IF accepted THEN @ ELSE "done"]

ImportUsers(p) ==
    /\ pc[p] = "m_users"
    /\ LET rows == local[p].data.users
       IN  \/ ImportAdvance(p, rows, "m_categories")
           \/ /\ local[p].i <= Len(rows)
              /\ LET user == rows[local[p].i]
                     id == serial.users + 1
                     accepted == \A u \in DOMAIN usersTable :
                                     usersTable[u].username # user.username
                 IN  /\ serial' = [serial EXCEPT !.users = id]
                     /\ usersTable' =
                           IF accepted
                           THEN usersTable @@ (id :> [username |-> user.username,
                                                      password_hash |-> user.password_hash,
                                                      role |-> user.role])
                           ELSE usersTable
                     /\ ImportInserted(p, accepted, "unique_violation")
              /\ UNCHANGED <<tables, ghost, sequential, settingsTable, now, tzOffset,
                             categoriesTable, hist>>

ImportCategories(p) ==
    /\ pc[p] = "m_categories"
    /\ LET rows == local[p].data.categories
       IN  \/ ImportAdvance(p, rows, "m_products")
           \/ /\ local[p].i <= Len(rows)
              /\ LET id == serial.categories + 1
                 IN  /\ serial' = [serial EXCEPT !.categories = id]
                     /\ categoriesTable' =
                           categoriesTable @@ (id :> [name |-> rows[local[p].i].name])
                     /\ ImportInserted(p, TRUE, "none")
              /\ UNCHANGED <<tables, ghost, sequential, settingsTable, now, tzOffset,
                             usersTable, hist>>

ImportProducts(p) ==
    /\ pc[p] = "m_products"
    /\ LET rows == local[p].data.products
       IN  \/ ImportAdvance(p, rows, "m_transactions")
           \/ /\ local[p].i <= Len(rows)
              /\ LET product == rows[local[p].i]
                     id == serial.products + 1
                     accepted == CategoryAccepted(product.category_id)
                 IN  /\ serial' = [serial EXCEPT !.products = id]
                     /\ productsTable' =
                           IF accepted
                           THEN productsTable @@
                                   (id :> [stock_quantity |-> product.stock_quantity,
                                           selling_price |-> product.selling_price,
                                           category_id |-> product.category_id])
                           ELSE productsTable
                     /\ ImportInserted(p, accepted, "foreign_key_violation")
              /\ UNCHANGED <<transactionsTable, transactionItemsTable, ghost, env, hist>>

ImportTransactions(p) ==
    /\ pc[p] = "m_transactions"
    /\ LET rows == local[p].data.transactions
       IN  \/ ImportAdvance(p, rows, "m_items")
           \/ /\ local[p].i <= Len(rows)
              /\ LET transaction == rows[local[p].i]
                     id == serial.transactions + 1
                     known == transaction.user_id \in DOMAIN usersTable
                     fresh == \A t \in DOMAIN transactionsTable :
                                 transactionsTable[t].transaction_code
                                     # transaction.transaction_code
                 IN  /\ serial' = [serial EXCEPT !.transactions = id]
                     /\ transactionsTable' =
                           IF known /\ fresh
                           THEN transactionsTable @@
                                   (id :> [transaction_code |-> transaction.transaction_code,
                                           user_id |-> transaction.user_id,
                                           payment_method |-> transaction.payment_method,
                                           subtotal |-> transaction.subtotal,
                                           discount_amount |-> transaction.discount_amount,
                                           tax_amount |-> transaction.tax_amount,
                                           total_amount |-> transaction.total_amount,
                                           status |-> transaction.status,
                                           created_at |-> now])
                           ELSE transactionsTable
                     /\ ImportInserted(p, known /\ fresh,
                                       IF known THEN "unique_violation"
                                       ELSE "foreign_key_violation")
              /\ UNCHANGED <<productsTable, transactionItemsTable, ghost, env, hist>>

ImportTransactionItems(p) ==
    /\ pc[p] = "m_items"
    /\ LET rows == local[p].data.transaction_items
       IN  \/ ImportAdvance(p, rows, "m_settings")
           \/ /\ local[p].i <= Len(rows)
              /\ LET item == rows[local[p].i]
                     id == serial.items + 1
                     accepted == /\ item.transaction_id \in DOMAIN transactionsTable
                                 /\ item.product_id \in DOMAIN productsTable
                 IN  /\ serial' = [serial EXCEPT !.items = id]
                     /\ transactionItemsTable' =
                           IF accepted
                           THEN transactionItemsTable @@
                                   (id :> [transaction_id |-> item.transaction_id,
                                           product_id |-> item.product_id,
                                           quantity |-> item.quantity,
                                           unit_price |-> item.unit_price,
                                           discount_amount |-> item.discount_amount,
                                           total_price |-> item.total_price])
                           ELSE transactionItemsTable
                     /\ ImportInserted(p, accepted, "foreign_key_violation")
              /\ UNCHANGED <<productsTable, transactionsTable, ghost, env, hist>>

ImportSettings(p) ==
    /\ pc[p] = "m_settings"
    /\ LET rows == local[p].data.settings
       IN  \/ ImportAdvance(p, rows, "done")
           \/ /\ local[p].i <= Len(rows)
              /\ LET setting == rows[local[p].i]
                 IN  /\ settingsTable' = InsertSetting(setting)
                     /\ IF setting.key \in DOMAIN settingsTable
                        THEN /\ local' = [local EXCEPT
                                             ![p] = Finish(p, "unique_violation")]
                             /\ pc' = [pc EXCEPT ![p] = "done"]
                        ELSE /\ local' = [local EXCEPT ![p].i = @ + 1]
                             /\ UNCHANGED pc
              /\ UNCHANGED <<tables, serial, ghost, sequential, now, tzOffset, usersTable,
                             categoriesTable, hist>>

\* ------------------------------------------------------------ the system
\* the caller has received the result; the request slot is free again
Return(p) ==
    /\ pc[p] = "done"
    /\ pc' = [pc EXCEPT ![p] = "idle"]
    /\ local' = [local EXCEPT ![p] = IdleLocal]
    /\ hist' = IF sequential
               THEN [snap |-> NoSnapshot,
                     last |-> IF local[p].op = "createTransaction" /\ local[p].result = "ok"
                              THEN [transaction |-> local[p].transaction,
                                    products |-> hist.snap.products]
                              ELSE NoLast]
               ELSE hist
    /\ UNCHANGED <<tables, serial, ghost, env>>

Next ==
    \E p \in Procs :
        \/ StartCreate(p) \/ CreateGenerateCode(p) \/ CreateValidate(p)
        \/ CreateInsertTransaction(p) \/ CreateSelectProduct(p)
        \/ CreateInsertItem(p) \/ CreateUpdateStock(p)
        \/ StartReverse(p) \/ ReverseFetch(p) \/ ReverseGetItems(p)
        \/ ReverseSelectProduct(p) \/ ReverseUpdateStock(p) \/ ReverseSetStatus(p)
        \/ StartStock(p) \/ StockRead(p) \/ StockWrite(p)
        \/ StartDelete(p) \/ DeleteCheck(p) \/ DeleteExec(p)
        \/ Return(p)

\* two or more sales running against each other, nothing else
StartSale(p) == StartCreateUpTo(p, MaxSales)

SalesNext ==
    \E p \in Procs :
        \/ StartSale(p) \/ CreateGenerateCode(p) \/ CreateValidate(p)
        \/ CreateInsertTransaction(p) \/ CreateSelectProduct(p)
        \/ CreateInsertItem(p) \/ CreateUpdateStock(p)
        \/ Return(p)

\* one sale with discounts, served alone, and the settings edited before and after it
StartPricedSale(p) == StartCreateWith(p, MaxTx, PricedCarts)

PricingNext ==
    \E p \in Procs :
        \/ StartPricedSale(p) \/ CreateGenerateCode(p) \/ CreateValidate(p)
        \/ CreateInsertTransaction(p) \/ CreateSelectProduct(p)
        \/ CreateInsertItem(p) \/ CreateUpdateStock(p)
        \/ StartUpdateSetting(p) \/ UpdateSettingUpdate(p) \/ UpdateSettingInsert(p)
        \/ StartInitializeDefaultSettings(p) \/ InitializeGetSetting(p)
        \/ InitializeInsertSetting(p)
        \/ Return(p)

\* time passes
Tick ==
    /\ now < MaxTime
    /\ now' = now + 1
    /\ UNCHANGED <<tables, serial, pc, local, ghost, sequential, settingsTable, tzOffset,
                   usersTable, categoriesTable, hist>>

\* sales of one unit, served one at a time over several days
CodeCarts == {cart \in Carts : Len(cart.items) = 1 /\ cart.items[1].quantity = 1}
StartCodedSale(p) == StartCreateWith(p, MaxCodes, CodeCarts)

CodeNext ==
    \/ \E p \in Procs :
          \/ StartCodedSale(p) \/ CreateGenerateCode(p) \/ CreateValidate(p)
          \/ CreateInsertTransaction(p) \/ CreateSelectProduct(p)
          \/ CreateInsertItem(p) \/ CreateUpdateStock(p)
          \/ Return(p)
    \/ Tick

\* sales by two users over two days, their reversal, and the read-only calls
AuditCarts ==
    [user_id : {1, 2},
     items : {<< [product_id |-> 1, quantity |-> 1, discount_amount |-> 0] >>},
     transaction_discount : {0}, payment_method : {"cash"}]
StartAuditedSale(p) == StartCreateWith(p, MaxCodes, AuditCarts)

AuditNext ==
    \/ \E p \in Procs :
          \/ StartAuditedSale(p) \/ CreateGenerateCode(p) \/ CreateValidate(p)
          \/ CreateInsertTransaction(p) \/ CreateSelectProduct(p)
          \/ CreateInsertItem(p) \/ CreateUpdateStock(p)
          \/ StartReverse(p) \/ ReverseFetch(p) \/ ReverseGetItems(p)
          \/ ReverseSelectProduct(p) \/ ReverseUpdateStock(p) \/ ReverseSetStatus(p)
          \/ StartGetTransactions(p) \/ GetTransactions(p)
          \/ StartGetTransaction(p) \/ GetTransaction(p)
          \/ Return(p)
    \/ Tick

\* sales of one unit and changes of the selling price
PriceInputs == [id : 1..MaxProducts, selling_price : {Absent} \cup NewPrices,
                category_id : {Absent}, stock_quantity : {Absent}]
StartReprice(p) == StartUpdateProductWith(p, PriceInputs)
StartUnitSale(p) == StartCreateWith(p, MaxSales, CodeCarts)

PriceNext ==
    \E p \in Procs :
        \/ StartUnitSale(p) \/ CreateGenerateCode(p) \/ CreateValidate(p)
        \/ CreateInsertTransaction(p) \/ CreateSelectProduct(p)
        \/ CreateInsertItem(p) \/ CreateUpdateStock(p)
        \/ StartReprice(p) \/ UpdateProduct(p)
        \/ Return(p)

\* products are created and moved between categories while categories come and go
CategoryMoves ==
    [id : 1..MaxProducts, selling_price : {Absent}, category_id : CategoryInputs,
     stock_quantity : {Absent}]
StartMove(p) == StartUpdateProductWith(p, CategoryMoves)

CategoryNext ==
    \E p \in Procs :
        \/ StartCreateCategory(p) \/ CreateCategory(p)
        \/ StartDeleteCategory(p) \/ DeleteCategoryGet(p) \/ DeleteCategoryCount(p)
        \/ DeleteCategoryExec(p)
        \/ StartCreateProduct(p) \/ CreateProduct(p)
        \/ StartMove(p) \/ UpdateProduct(p)
        \/ Return(p)

\* users are created and deleted by requests that run in parallel
UserNext ==
    \E p \in Procs :
        \/ StartCreateUser(p) \/ CreateUser(p)
        \/ StartDeleteUser(p) \/ DeleteUserCount(p) \/ DeleteUserGet(p)
        \/ DeleteUserExec(p)
        \/ Return(p)

\* users are created and log in
LoginNext ==
    \E p \in Procs :
        \/ StartCreateUser(p) \/ CreateUser(p)
        \/ StartLogin(p) \/ Login(p)
        \/ StartVerifyToken(p) \/ VerifyToken(p)
        \/ Return(p)

\* a store with a sale and settings is exported, and data is imported into it
StartBackedUpSale(p) == StartCreateWith(p, MaxTx, AuditCarts)

ImportNext ==
    \E p \in Procs :
        \/ StartBackedUpSale(p) \/ CreateGenerateCode(p) \/ CreateValidate(p)
        \/ CreateInsertTransaction(p) \/ CreateSelectProduct(p)
        \/ CreateInsertItem(p) \/ CreateUpdateStock(p)
        \/ StartInitializeDefaultSettings(p) \/ InitializeGetSetting(p)
        \/ InitializeInsertSetting(p)
        \/ StartExportData(p) \/ ExportData(p)
        \/ StartImportData(p) \/ StartImportExported(p) \/ ImportReset(p)
        \/ ImportUsers(p) \/ ImportCategories(p) \/ ImportProducts(p)
        \/ ImportTransactions(p) \/ ImportTransactionItems(p) \/ ImportSettings(p)
        \/ Return(p)

Spec == Init /\ [][Next]_vars
PriceSpec == SeqInit /\ [][PriceNext]_vars
RepriceSpec == Init /\ [][PriceNext]_vars
AuditSpec == SeqInit /\ [][AuditNext]_vars
CodeSpec == CodeInit /\ [][CodeNext]_vars
PricingSpec == SeqInit /\ [][PricingNext]_vars
SalesSpec == Init /\ [][SalesNext]_vars
CategorySpec == SeqInit /\ [][CategoryNext]_vars
UserSpec == Init /\ [][UserNext]_vars
LoginSpec == SeqInit /\ [][LoginNext]_vars
ImportSpec == SeqInit /\ [][ImportNext]_vars
SeqSpec == SeqInit /\ [][Next]_vars

\* ------------------------------------------------------------- properties
RECURSIVE SumQuantity(_)
SumQuantity(ids) ==
    IF ids = {} THEN 0
    ELSE LET k == CHOOSE x \in ids : TRUE
         IN transactionItemsTable[k].quantity + SumQuantity(ids \ {k})

\* units of product q recorded as sold by the line items of transaction t
SoldQty(t, q) ==
    SumQuantity({k \in DOMAIN transactionItemsTable :
                    /\ transactionItemsTable[k].transaction_id = t
                    /\ transactionItemsTable[k].product_id = q})

\* units of product q recorded as sold by all line items
SoldTotal(q) ==
    SumQuantity({k \in DOMAIN transactionItemsTable : transactionItemsTable[k].product_id = q})

Done(p, op) == pc[p] = "done" /\ local[p].op = op
Quiet == \A p \in Procs : pc[p] \in {"idle", "done"}

\* a finished createTransaction call whose cart is one line asking for the whole
\* initial stock of product q
FullStockSale(p, q) ==
    /\ Done(p, "createTransaction")
    /\ Len(local[p].input.items) = 1
    /\ local[p].input.items[1].product_id = q
    /\ local[p].input.items[1].quantity = InitStock

\* C1: two createTransaction calls that each ask for the full stock of the same product,
\* and are the only calls that sold anything: exactly one of them succeeds, the stock
\* ends at 0 and no more than the stock is recorded as sold.  (The kind of the loser's
\* error is left open here; a collision of transaction codes also makes a sale fail.)
C1_ExactlyOneFullStockSale ==
    \A p1, p2 \in Procs, q \in ProductIds :
        ( /\ p1 # p2
          /\ FullStockSale(p1, q) /\ FullStockSale(p2, q)
          /\ \A k \in DOMAIN transactionItemsTable :
                 transactionItemsTable[k].transaction_id
                     \in {local[p1].transaction, local[p2].transaction} )
        => /\ (local[p1].result = "ok") # (local[p2].result = "ok")
           /\ productsTable[q].stock_quantity = 0
           /\ SoldTotal(q) <= InitStock

\* C2: after any sequence of createTransaction, cancelTransaction, refundTransaction and
\* updateProductStock calls, every product's stock_quantity is >= 0.
C2_StockNeverNegative ==
    Quiet => \A q \in DOMAIN productsTable : productsTable[q].stock_quantity >= 0

\* C3: once a createTransaction call has finished, either its transaction row and one
\* item row per cart line are persisted (success), or no row of it is (error).
C3_CreateAllOrNothing ==
    \A p \in Procs :
        Done(p, "createTransaction") =>
            LET l == local[p]
            IN  IF l.result = "ok"
                THEN /\ l.transaction \in DOMAIN transactionsTable
                     /\ Len(ItemIdsOf(l.transaction)) = Len(l.input.items)
                ELSE /\ l.transaction \notin DOMAIN transactionsTable
                     /\ ItemIdsOf(l.transaction) = << >>

\* C4: a transaction is created 'completed'; its status changes only from 'completed',
\* to 'cancelled' by cancelTransaction or to 'refunded' by refundTransaction; a
\* 'cancelled' or 'refunded' status is never changed by a later call.
C4_StatusStateMachine ==
    [][\A t \in DOMAIN transactionsTable' :
          IF t \notin DOMAIN transactionsTable
          THEN transactionsTable'[t].status = "completed"
          ELSE \/ transactionsTable'[t].status = transactionsTable[t].status
               \/ /\ transactionsTable[t].status = "completed"
                  /\ \E p \in Procs :
                        /\ local[p].op \in ReverseOps /\ local[p].id = t
                        /\ pc[p] = "r_status" /\ pc'[p] = "done"
                        /\ transactionsTable'[t].status = Terminal(local[p].op)]_vars

\* a reversal was refused because the transaction was already cancelled or refunded
C4_Witness ==
    \E p \in Procs :
        /\ pc[p] = "done" /\ local[p].op \in ReverseOps
        /\ local[p].result = InvalidState(local[p].op)
        /\ transactionsTable[local[p].id].status \in {"cancelled", "refunded"}

\* C5: of the cancelTransaction / refundTransaction calls on one transaction at most one
\* succeeds, and each product gets back no more than the transaction's items sold.
C5_ReversedExactlyOnce ==
    /\ \A p1, p2 \in Procs :
          ( /\ p1 # p2
            /\ pc[p1] = "done" /\ local[p1].op \in ReverseOps
            /\ pc[p2] = "done" /\ local[p2].op \in ReverseOps
            /\ local[p1].id = local[p2].id )
          => ~(local[p1].result = "ok" /\ local[p2].result = "ok")
    /\ \A t \in DOMAIN transactionsTable, q \in ProductIds :
          restored[t][q] <= SoldQty(t, q)

\* C6: no reachable state has a transaction still 'completed' while some of its
\* quantities were already added back to stock.
C6_ReversalAllOrNothing ==
    \A t \in DOMAIN transactionsTable :
        transactionsTable[t].status = "completed"
            => \A q \in ProductIds : restored[t][q] = 0

\* C7: in a sequential run a successful cancelTransaction (refundTransaction) adds to
\* each product's stock exactly the quantities of the transaction's line items, returns
\* and stores the status 'cancelled' ('refunded'), and, when it directly follows the
\* creation of that transaction, leaves every stock as it was before the creation.
C7_ReversalRestoresStock ==
    \A p \in Procs :
        ( /\ pc[p] = "done" /\ local[p].op \in ReverseOps /\ local[p].result = "ok" )
        => LET l == local[p]
           IN  /\ DOMAIN productsTable = DOMAIN hist.snap.products
               /\ \A q \in DOMAIN productsTable :
                     productsTable[q].stock_quantity =
                         hist.snap.products[q].stock_quantity + SoldQty(l.id, q)
               /\ l.status = Terminal(l.op)
               /\ transactionsTable[l.id].status = Terminal(l.op)
               /\ hist.last.transaction = l.id =>
                     \A q \in DOMAIN productsTable :
                         productsTable[q].stock_quantity =
                             hist.last.products[q].stock_quantity

\* a refund directly after the creation of a transaction with two units of one product
C7_Witness ==
    \E p \in Procs, q \in ProductIds :
        /\ pc[p] = "done" /\ local[p].op = "refundTransaction" /\ local[p].result = "ok"
        /\ hist.last.transaction = local[p].id
        /\ SoldQty(local[p].id, q) >= 2

\* C8: cancelTransaction / refundTransaction on a transaction that is not 'completed'
\* fails with 'cannot cancel' / 'cannot refund', on an id without transaction with
\* not-found, and in both cases every table is as it was before the call.
C8_RefusedReversalChangesNothing ==
    \A p \in Procs :
        ( pc[p] = "done" /\ local[p].op \in ReverseOps ) =>
            LET l == local[p]
                before == hist.snap.transactions
            IN  /\ l.id \notin DOMAIN before =>
                      l.result = "not_found" /\ Snapshot = hist.snap
                /\ (l.id \in DOMAIN before /\ before[l.id].status # "completed") =>
                      /\ l.result = (IF l.op = "cancelTransaction" THEN "cannot_cancel"
                                                                   ELSE "cannot_refund")
                      /\ Snapshot = hist.snap

\* a cancel of a refunded transaction was refused
C8_Witness ==
    \E p \in Procs :
        /\ pc[p] = "done" /\ local[p].op = "cancelTransaction"
        /\ local[p].result = "cannot_cancel"
        /\ hist.snap.transactions[local[p].id].status = "refunded"

\* the cart lines of a call, judged against the products the call found at its start
Missing(item) == item.product_id \notin DOMAIN hist.snap.products
Short(item) ==
    /\ ~Missing(item)
    /\ item.quantity > hist.snap.products[item.product_id].stock_quantity

\* C9 (as claimed): a cart with a line, at any position, whose product does not exist is
\* refused with product-not-found, and every table is as it was before the call.
C9_MissingProductNotFound ==
    \A p \in Procs :
        LET items == local[p].input.items
        IN  ( /\ Done(p, "createTransaction")
              /\ \E k \in 1..Len(items) : Missing(items[k]) )
            => /\ local[p].result = "product_not_found"
               /\ Snapshot = hist.snap

\* C9 (amended): a cart with a line whose product does not exist is refused, with
\* insufficient-stock when a line before the first such line asks for more than its
\* product's stock and with product-not-found otherwise, and every table is as it was
\* before the call.
C9_MissingProductRejected ==
    \A p \in Procs :
        LET items == local[p].input.items
        IN  ( /\ Done(p, "createTransaction")
              /\ \E k \in 1..Len(items) : Missing(items[k]) )
            => LET first == CHOOSE k \in 1..Len(items) :
                                /\ Missing(items[k])
                                /\ \A j \in 1..(k - 1) : ~Missing(items[j])
               IN  /\ local[p].result =
                         (IF \E j \in 1..(first - 1) : Short(items[j])
                          THEN "insufficient_stock" ELSE "product_not_found")
                   /\ Snapshot = hist.snap

\* a cart whose second line names a deleted product was refused with product-not-found
C9_Witness ==
    \E p \in Procs :
        LET items == local[p].input.items
        IN  /\ Done(p, "createTransaction")
            /\ Len(items) = 2 /\ ~Missing(items[1]) /\ Missing(items[2])
            /\ local[p].result = "product_not_found"

\* C10 (as claimed): a cart with a line that asks for more than the current stock of its
\* product is refused with insufficient-stock, and nothing is persisted.
C10_ShortLineInsufficientStock ==
    \A p \in Procs :
        LET items == local[p].input.items
        IN  ( /\ Done(p, "createTransaction")
              /\ \E k \in 1..Len(items) : Short(items[k]) )
            => /\ local[p].result = "insufficient_stock"
               /\ Snapshot = hist.snap

\* C10 (amended): a cart with a line that asks for more than the current stock of its
\* product is refused, with product-not-found when a line before the first such line
\* names a product that does not exist and with insufficient-stock otherwise, and
\* nothing is persisted: neither the quantity nor the stock is clamped.
C10_ShortLineRejected ==
    \A p \in Procs :
        LET items == local[p].input.items
        IN  ( /\ Done(p, "createTransaction")
              /\ \E k \in 1..Len(items) : Short(items[k]) )
            => LET first == CHOOSE k \in 1..Len(items) :
                                /\ Short(items[k])
                                /\ \A j \in 1..(k - 1) : ~Short(items[j])
               IN  /\ local[p].result =
                         (IF \E j \in 1..(first - 1) : Missing(items[j])
                          THEN "product_not_found" ELSE "insufficient_stock")
                   /\ Snapshot = hist.snap

\* a cart whose second line asks for more than the stock was refused
C10_Witness ==
    \E p \in Procs :
        LET items == local[p].input.items
        IN  /\ Done(p, "createTransaction")
            /\ Len(items) = 2 /\ ~Short(items[1]) /\ ~Missing(items[1]) /\ Short(items[2])
            /\ local[p].result = "insufficient_stock"

\* ----------------------------------------------------------------- pricing
\* a createTransaction call of p has returned the created transaction
Created(p) == Done(p, "createTransaction") /\ local[p].result = "ok"

RECURSIVE SumLines(_, _, _)
\* the sum over the first n lines of a cart of f[k]
SumLines(f, n, acc) == IF n = 0 THEN acc ELSE SumLines(f, n - 1, acc + f[n])

\* selling price times quantity, minus the line discount, summed over the lines
CartSubtotal(cart, products) ==
    SumLines([k \in 1..Len(cart.items) |->
                 products[cart.items[k].product_id].selling_price * cart.items[k].quantity
                    - cart.items[k].discount_amount],
             Len(cart.items), 0)

CartLineDiscounts(cart) ==
    SumLines([k \in 1..Len(cart.items) |-> cart.items[k].discount_amount],
             Len(cart.items), 0)

\* every discount of the cart has at most two fraction digits
WholeCents(cart) ==
    /\ cart.transaction_discount % 2 = 0
    /\ \A k \in 1..Len(cart.items) : cart.items[k].discount_amount % 2 = 0

\* the three amounts of the created row follow the formulas
PricedByFormula(p) ==
    LET row == transactionsTable[local[p].transaction]
        cart == local[p].input
    IN  /\ row.subtotal = CartSubtotal(cart, hist.snap.products)
        /\ row.discount_amount = CartLineDiscounts(cart) + cart.transaction_discount
        /\ row.tax_amount = 0 => row.total_amount = row.subtotal - cart.transaction_discount

\* C11 (as claimed): after every successful createTransaction the stored subtotal is
\* the sum over the lines of selling price times quantity minus line discount, the
\* stored discount_amount is the sum of the line discounts plus the transaction
\* discount, and with no tax the stored total is the subtotal minus the transaction
\* discount.
C11_PricingFormulas == \A p \in Procs : Created(p) => PricedByFormula(p)

\* C11 (amended): the same, for requests whose discounts are whole cents.
C11_WholeCentPricing ==
    \A p \in Procs : Created(p) /\ WholeCents(local[p].input) => PricedByFormula(p)

\* two units at 1.00 with a line discount of 0.01 and a transaction discount of 0.01
\* were sold: 1.99, 0.02, 1.98
C11_Witness ==
    \E p \in Procs :
        /\ Created(p)
        /\ local[p].input.items
              = << [product_id |-> 2, quantity |-> 2, discount_amount |-> 2] >>
        /\ local[p].input.transaction_discount = 2
        /\ transactionsTable[local[p].transaction].subtotal = 398
        /\ transactionsTable[local[p].transaction].discount_amount = 4
        /\ transactionsTable[local[p].transaction].total_amount = 396

\* the item row written for line k of the cart of p
ItemRowOf(p, k) == transactionItemsTable[ItemIdsOf(local[p].transaction)[k]]

\* C12: every persisted line item has total_price = max(0, unit price x quantity -
\* line discount), so no line total is negative.
C12_LineTotalsClamped ==
    \A p \in Procs :
        Created(p) /\ WholeCents(local[p].input) =>
            \A k \in 1..Len(local[p].input.items) :
                LET line == local[p].input.items[k]
                    unitPrice == hist.snap.products[line.product_id].selling_price
                IN  /\ ItemRowOf(p, k).total_price >= 0
                    /\ ItemRowOf(p, k).total_price
                          = Max(0, unitPrice * line.quantity - line.discount_amount)

\* C13: the stored total_amount is max(0, subtotal - transaction_discount) + tax_amount,
\* so it is never negative.
C13_TotalClamped ==
    \A p \in Procs :
        Created(p) /\ WholeCents(local[p].input) =>
            LET row == transactionsTable[local[p].transaction]
            IN  /\ row.total_amount >= 0
                /\ row.total_amount
                      = Max(0, row.subtotal - local[p].input.transaction_discount)
                        + row.tax_amount

\* parseFloat of the value of the 'tax_rate' setting, in percent
TaxRatePercent(value) ==
    CASE value = "0.10" -> 10
      [] value = "0.20" -> 20
      [] OTHER -> 0

\* C14: the stored tax_amount is the 'tax_rate' setting times
\* max(0, subtotal - transaction_discount), to the cent.
C14_TaxFromSetting ==
    \A p \in Procs :
        Created(p) /\ "tax_rate" \in DOMAIN settingsTable =>
            LET row == transactionsTable[local[p].transaction]
                base == Max(0, row.subtotal - local[p].input.transaction_discount)
                diff == 100 * row.tax_amount - TaxRatePercent(settingsTable["tax_rate"]) * base
            IN  diff <= 100 /\ diff >= -100

\* C15: createTransaction with an empty list of line items is rejected and persists
\* nothing, so no persisted transaction has zero line items.
C15_EmptyCartRejected ==
    \A p \in Procs :
        Done(p, "createTransaction") /\ local[p].input.items = << >> =>
            /\ local[p].result # "ok"
            /\ Snapshot = hist.snap
            /\ \A t \in DOMAIN transactionsTable : ItemIdsOf(t) # << >>

\* ------------------------------------------------------- transaction codes
\* the transactions created on the UTC day of t, up to and including t
SameDayUpTo(t) ==
    {u \in DOMAIN transactionsTable :
        /\ u <= t
        /\ DateStr(transactionsTable[u].created_at) = DateStr(transactionsTable[t].created_at)}

\* C16: with creations served one at a time, the k-th transaction created within a
\* UTC calendar day carries the sequence number k of that day, and no creation fails
\* because its code is already taken.  (A creation during which midnight passes is
\* left aside: its row is not said to belong to either day.)
C16_DailySequentialCodes ==
    /\ \A t \in DOMAIN transactionsTable :
          transactionsTable[t].transaction_code.date
                = DateStr(transactionsTable[t].created_at)
             => transactionsTable[t].transaction_code.sequence
                   = Cardinality(SameDayUpTo(t))
    /\ \A p \in Procs :
          Done(p, "createTransaction") => local[p].result # "unique_violation"

\* C17: a creation whose insert hits the unique constraint on transaction_code counts
\* again and retries; with two creations in all, one collision is all there can be,
\* so no creation ends with the constraint violation.
C17_CollisionRetried ==
    \A p \in Procs :
        Done(p, "createTransaction") =>
            /\ local[p].result # "unique_violation"
            /\ local[p].result = "ok" => local[p].transaction \in DOMAIN transactionsTable

\* --------------------------------------------------------------- the stock
\* C18: stock mutations of concurrent requests do not overwrite each other.  When one
\* sale and one manual adjustment of product q are all that has written stock, and
\* the adjustment was not clamped, the stock of q is the initial stock minus the units
\* sold plus the adjustment.
C18_NoLostStockUpdate ==
    \A p1, p2 \in Procs, q \in DOMAIN productsTable :
        ( /\ Created(p1)
          /\ Done(p2, "updateProductStock") /\ local[p2].result = "ok"
          /\ local[p2].id = q /\ local[p2].newStock > 0
          /\ serial.transactions = 1 /\ adjustments = 1
          /\ \A t \in TxIds, r \in ProductIds : restored[t][r] = 0 )
        => productsTable[q].stock_quantity = InitStock - SoldTotal(q) + local[p2].delta

\* C19: served alone, updateProductStock(id, delta) on an existing product sets its
\* stock to max(0, stock + delta), returns the updated product and changes nothing
\* else, a negative sum included; on an id without product it fails with 'Product not
\* found' and changes nothing.
C19_StockAdjustment ==
    \A p \in Procs :
        Done(p, "updateProductStock") =>
            LET l == local[p]
            IN  IF l.id \in DOMAIN hist.snap.products
                THEN /\ l.result = "ok"
                     /\ productsTable =
                           [hist.snap.products EXCEPT
                               ![l.id].stock_quantity = Max(0, @ + l.delta)]
                     /\ l.newStock = productsTable[l.id].stock_quantity
                     /\ transactionsTable = hist.snap.transactions
                     /\ transactionItemsTable = hist.snap.items
                ELSE /\ l.result = "product_not_found"
                     /\ Snapshot = hist.snap

\* one unit was taken from a product that had none: the stock stays at 0
C19_Witness ==
    \E p \in Procs :
        /\ Done(p, "updateProductStock") /\ local[p].result = "ok"
        /\ local[p].delta = -1
        /\ hist.snap.products[local[p].id].stock_quantity = 0
        /\ productsTable[local[p].id].stock_quantity = 0

\* units of product q asked for by the lines of a cart
CartQuantity(cart, q) ==
    SumLines([k \in 1..Len(cart.items) |->
                 IF cart.items[k].product_id = q THEN cart.items[k].quantity ELSE 0],
             Len(cart.items), 0)

\* the stock of every product went down by the units the cart asks of it
StockReducedByCart(p) ==
    /\ DOMAIN productsTable = DOMAIN hist.snap.products
    /\ \A q \in DOMAIN productsTable :
          productsTable[q].stock_quantity
              = hist.snap.products[q].stock_quantity - CartQuantity(local[p].input, q)

\* one item row per cart line, in cart order, with the line's product and quantity
OneItemPerLine(p) ==
    /\ Len(ItemIdsOf(local[p].transaction)) = Len(local[p].input.items)
    /\ \A k \in 1..Len(local[p].input.items) :
          /\ ItemRowOf(p, k).product_id = local[p].input.items[k].product_id
          /\ ItemRowOf(p, k).quantity = local[p].input.items[k].quantity

\* C20 (as claimed): a successful createTransaction served alone reduces the stock of
\* each product by exactly the quantity the cart sells of it, leaves the other
\* products' stock unchanged, and inserts one line item per cart line with that
\* line's product, quantity and discount.
C20_SaleRecordedExactly ==
    \A p \in Procs :
        Created(p) =>
            /\ StockReducedByCart(p)
            /\ OneItemPerLine(p)
            /\ \A k \in 1..Len(local[p].input.items) :
                  ItemRowOf(p, k).discount_amount = local[p].input.items[k].discount_amount

\* C20 (amended): the same, the discount of the line item being the line's discount
\* rounded to two fraction digits.
C20_SaleRecorded ==
    \A p \in Procs :
        Created(p) =>
            /\ StockReducedByCart(p)
            /\ OneItemPerLine(p)
            /\ \A k \in 1..Len(local[p].input.items) :
                  ItemRowOf(p, k).discount_amount
                      = ToNumeric(local[p].input.items[k].discount_amount)

\* two lines of the same product were sold, one unit each, the second with a discount
\* of half a cent: the stock went from 2 to 0, the other product kept its stock
C20_Witness ==
    \E p \in Procs :
        /\ Created(p)
        /\ local[p].input.items
              = << [product_id |-> 1, quantity |-> 1, discount_amount |-> 0],
                   [product_id |-> 1, quantity |-> 1, discount_amount |-> 1] >>
        /\ productsTable[1].stock_quantity = InitStock - 2
        /\ productsTable[2].stock_quantity = InitStock
        /\ Len(ItemIdsOf(local[p].transaction)) = 2

\* ------------------------------------------------------------ the audit trail
\* C21: no step of cancelTransaction, refundTransaction or of a read-only call changes
\* a line item, or anything but the status of a transaction: item rows and the code,
\* user, amounts, payment method and created_at of a transaction stay as created.
C21_ItemsImmutable ==
    [][ /\ \A k \in DOMAIN transactionItemsTable :
              /\ k \in DOMAIN transactionItemsTable'
              /\ transactionItemsTable'[k] = transactionItemsTable[k]
        /\ \A t \in DOMAIN transactionsTable :
              /\ t \in DOMAIN transactionsTable'
              /\ transactionsTable'[t] =
                    [transactionsTable[t] EXCEPT !.status = transactionsTable'[t].status]
      ]_vars

\* a transaction with a line item was cancelled or refunded and then read
C21_Witness ==
    \E p \in Procs :
        /\ Done(p, "getTransactionItems") /\ local[p].rows # << >>
        /\ transactionsTable[local[p].id].status \in {"cancelled", "refunded"}

\* C22: the unit_price of a line item is the selling price the product had when the
\* sale was made, and an updateProduct call, whatever it changes, leaves the line items
\* and the transactions as they were.
C22_PriceSnapshot ==
    \A p \in Procs :
        /\ Created(p) =>
              \A k \in 1..Len(local[p].input.items) :
                  ItemRowOf(p, k).unit_price
                      = hist.snap.products[local[p].input.items[k].product_id].selling_price
        /\ Done(p, "updateProduct") =>
              /\ transactionItemsTable = hist.snap.items
              /\ transactionsTable = hist.snap.transactions

\* the price of a product was changed after it was sold at another price
C22_Witness ==
    \E p \in Procs, k \in DOMAIN transactionItemsTable :
        /\ Done(p, "updateProduct") /\ local[p].result = "ok"
        /\ transactionItemsTable[k].product_id = local[p].id
        /\ productsTable[local[p].id].selling_price # hist.snap.products[local[p].id].selling_price
        /\ transactionItemsTable[k].unit_price # productsTable[local[p].id].selling_price

\* ------------------------------------------------------------------ listing
\* the row satisfies every filter the query supplies
SatisfiesFilters(query, row) ==
    /\ query.start_date # Absent => row.created_at >= query.start_date
    /\ query.end_date # Absent => row.created_at <= query.end_date
    /\ query.user_id # Absent => row.user_id = query.user_id
    /\ query.status # "absent" => row.status = query.status

\* rows is the window [offset + 1, offset + limit] of the set S of transactions in some
\* order of descending created_at
IsPageOf(rows, S, query) ==
    LET offset == IF query.offset = Absent THEN 0 ELSE query.offset
        rest == Max(0, Cardinality(S) - offset)
        created(t) == transactionsTable[t].created_at
    IN  /\ Len(rows) = IF query.limit = Absent THEN rest ELSE Min(query.limit, rest)
        /\ \A i \in 1..Len(rows) :
              /\ rows[i] \in S
              /\ \A j \in 1..Len(rows) :
                    /\ i # j => rows[i] # rows[j]
                    /\ i < j => created(rows[i]) >= created(rows[j])
              /\ Cardinality({t \in S : created(t) > created(rows[i])}) <= offset + i - 1
              /\ Cardinality({t \in S : created(t) >= created(rows[i])}) >= offset + i

\* C23: getTransactions returns exactly the transactions that satisfy every supplied
\* filter, by descending created_at, after skipping offset rows and keeping at most
\* limit rows; with no filters it returns all transactions.
C23_ListFiltered ==
    \A p \in Procs :
        Done(p, "getTransactions") =>
            IsPageOf(local[p].rows,
                     {t \in DOMAIN transactionsTable :
                         SatisfiesFilters(local[p].query, transactionsTable[t])},
                     local[p].query)

\* --------------------------------------------------------------- the catalogue
\* C24: deleteCategory returns false when the category does not exist, fails with
\* 'Cannot delete category that has associated products' and deletes nothing while a
\* product references the category, and otherwise deletes it; after any sequence of
\* createProduct, updateProduct and deleteCategory no product refers to a category
\* that is not there.
C24_CategoryDeletion ==
    /\ \A p \in Procs :
          Done(p, "deleteCategory") =>
              LET id == local[p].id
                  before == hist.snap
                  referenced == \E q \in DOMAIN before.products :
                                    before.products[q].category_id = id
              IN  /\ productsTable = before.products
                  /\ IF id \notin DOMAIN before.categories
                     THEN local[p].result = "false" /\ categoriesTable = before.categories
                     ELSE IF referenced
                     THEN /\ local[p].result = "has_associated_products"
                          /\ categoriesTable = before.categories
                     ELSE /\ local[p].result = "true"
                          /\ DOMAIN categoriesTable = DOMAIN before.categories \ {id}
    /\ \A q \in DOMAIN productsTable :
          productsTable[q].category_id # Null =>
              productsTable[q].category_id \in DOMAIN categoriesTable

\* a category has been deleted earlier, and the deletion of a category that a product
\* still refers to has just been refused
C24_Witness ==
    /\ Cardinality(DOMAIN categoriesTable) < serial.categories
    /\ \E p \in Procs :
          /\ Done(p, "deleteCategory")
          /\ local[p].result = "has_associated_products"
          /\ ProductCount(local[p].id) > 0

\* C25: deleteProduct fails with 'Cannot delete product with existing transaction
\* history' and deletes nothing when a line item references the product, returns false
\* for a product that does not exist, and otherwise deletes it; after any sequence of
\* createTransaction and deleteProduct every line item references an existing product.
C25_ProductDeletion ==
    /\ \A p \in Procs :
          Done(p, "deleteProduct") =>
              LET id == local[p].id
                  before == hist.snap
                  sold == \E k \in DOMAIN before.items : before.items[k].product_id = id
              IN  /\ transactionItemsTable = before.items
                  /\ transactionsTable = before.transactions
                  /\ IF sold
                     THEN /\ local[p].result = "has_transaction_history"
                          /\ productsTable = before.products
                     ELSE IF id \notin DOMAIN before.products
                     THEN local[p].result = "false" /\ productsTable = before.products
                     ELSE /\ local[p].result = "true"
                          /\ productsTable =
                                [q \in DOMAIN before.products \ {id} |-> before.products[q]]
    /\ \A k \in DOMAIN transactionItemsTable :
          transactionItemsTable[k].product_id \in DOMAIN productsTable

\* a product without sales has been deleted, and the deletion of a product that a
\* line item refers to has just been refused
C25_Witness ==
    /\ DOMAIN productsTable # ProductIds
    /\ \E p \in Procs :
          /\ Done(p, "deleteProduct")
          /\ local[p].result = "has_transaction_history"
          /\ HasTransactionItems(local[p].id)

\* ------------------------------------------------------------------- the users
\* C26: deleteUser never removes the last admin: at least one admin remains after any
\* deleteUser calls, also when the calls run concurrently.
C26_AdminRemains ==
    \E u \in DOMAIN usersTable : usersTable[u].role = "admin"

\* C29: a user created by createUser can log in with the password it was created
\* with: login returns the user's id and role and a token that verifyToken maps back
\* to that user.
C29_CreatedUserLogsIn ==
    \A p \in Procs :
        Done(p, "login") =>
            \A u \in DOMAIN usersTable :
                (/\ usersTable[u].username = local[p].userInput.username
                 /\ \E salt \in Salts :
                       usersTable[u].password_hash =
                           BunPasswordHash(local[p].userInput.password, salt))
                => /\ local[p].result = "ok"
                   /\ local[p].user.id = u
                   /\ local[p].user.role = usersTable[u].role
                   /\ VerifiedUser(local[p].token) = u

\* ---------------------------------------------------------- backup and restore
\* C27: importData with null or a non-object fails with 'Invalid data structure' and
\* leaves every table unchanged; with an object it first clears all data, and
\* afterwards the default settings exist alongside the rows it has imported.
C27_ImportValidated ==
    \A p \in Procs :
        Done(p, "importData") =>
            LET data == local[p].data
                before == hist.snap
                defaults == {DefaultSettings[i].key : i \in DOMAIN DefaultSettings}
                imported == {data.settings[i].key : i \in DOMAIN data.settings}
            IN  IF data.kind # "object"
                THEN local[p].result = "invalid_data_structure" /\ Snapshot = before
                ELSE /\ DOMAIN usersTable \cap DOMAIN before.users = {}
                     /\ DOMAIN categoriesTable \cap DOMAIN before.categories = {}
                     /\ DOMAIN productsTable \cap DOMAIN before.products = {}
                     /\ DOMAIN transactionsTable \cap DOMAIN before.transactions = {}
                     /\ DOMAIN transactionItemsTable \cap DOMAIN before.items = {}
                     /\ \A i \in DOMAIN DefaultSettings :
                           /\ DefaultSettings[i].key \in DOMAIN settingsTable
                           /\ settingsTable[DefaultSettings[i].key] = DefaultSettings[i].value
                     /\ DOMAIN settingsTable \subseteq defaults \cup imported
                     /\ local[p].result = "ok" =>
                           /\ Cardinality(DOMAIN usersTable) = Len(data.users)
                           /\ \A i \in DOMAIN data.users :
                                 \E u \in DOMAIN usersTable :
                                     usersTable[u] = [username |-> data.users[i].username,
                                                      password_hash |->
                                                          data.users[i].password_hash,
                                                      role |-> data.users[i].role]
                           /\ Cardinality(DOMAIN categoriesTable) = Len(data.categories)
                           /\ \A i \in DOMAIN data.categories :
                                 \E c \in DOMAIN categoriesTable :
                                     categoriesTable[c].name = data.categories[i].name
                           /\ Cardinality(DOMAIN productsTable) = Len(data.products)
                           /\ Cardinality(DOMAIN transactionsTable) = Len(data.transactions)
                           /\ Cardinality(DOMAIN transactionItemsTable)
                                  = Len(data.transaction_items)
                           /\ \A i \in DOMAIN data.settings :
                                 settingsTable[data.settings[i].key] = data.settings[i].value

\* a store with a sale has been replaced by an imported user, category and setting
C27_Witness ==
    \E p \in Procs :
        /\ Done(p, "importData")
        /\ local[p].result = "ok"
        /\ hist.snap.transactions # << >>
        /\ Len(local[p].data.users) > 0
        /\ ImportedSetting.key \in DOMAIN settingsTable
        /\ transactionsTable = << >>

\* the reference rb in the new store stands where the reference ra stood in the old
\* one, the rows of the referenced table being matched in the order of their ids
SameReference(old, new, ra, rb) ==
    LET olds == SortedSeq(DOMAIN old)
        news == SortedSeq(DOMAIN new)
    IN  \/ ra = Null /\ rb = Null
        \/ \E i \in 1..Len(olds) : i <= Len(news) /\ olds[i] = ra /\ news[i] = rb

\* the rows of a table have the same contents, matched in the order of their ids
SameRows(old, new, Same(_, _)) ==
    LET olds == SortedSeq(DOMAIN old)
        news == SortedSeq(DOMAIN new)
    IN  /\ Len(olds) = Len(news)
        /\ \A i \in 1..Len(olds) : Same(old[olds[i]], new[news[i]])

\* C30: importData(exportData()) on a store with settings and transactions succeeds
\* and leaves users, categories, products, transactions with their items, and
\* settings with the same contents and the same references between them.
C30_RoundTrip ==
    \A p \in Procs :
        (/\ Done(p, "importData")
         /\ hist.snap.transactions # << >>
         /\ hist.snap.settings # << >>
         /\ local[p].data = ExportedData(hist.snap))
        => LET before == hist.snap
           IN  /\ local[p].result = "ok"
               /\ SameRows(before.users, usersTable, LAMBDA a, b : a = b)
               /\ SameRows(before.categories, categoriesTable, LAMBDA a, b : a = b)
               /\ SameRows(before.products, productsTable,
                           LAMBDA a, b :
                               /\ [b EXCEPT !.category_id = a.category_id] = a
                               /\ SameReference(before.categories, categoriesTable,
                                                a.category_id, b.category_id))
               /\ SameRows(before.transactions, transactionsTable,
                           LAMBDA a, b :
                               /\ [b EXCEPT !.user_id = a.user_id] = a
                               /\ SameReference(before.users, usersTable,
                                                a.user_id, b.user_id))
               /\ SameRows(before.items, transactionItemsTable,
                           LAMBDA a, b :
                               /\ [b EXCEPT !.transaction_id = a.transaction_id,
                                            !.product_id = a.product_id] = a
                               /\ SameReference(before.transactions, transactionsTable,
                                                a.transaction_id, b.transaction_id)
                               /\ SameReference(before.products, productsTable,
                                                a.product_id, b.product_id))
               /\ settingsTable = before.settings

\* ------------------------------------------------- prices changed during a sale
RECURSIVE SumTotalPrice(_)
SumTotalPrice(ids) ==
    IF ids = {} THEN 0
    ELSE LET k == CHOOSE x \in ids : TRUE
         IN transactionItemsTable[k].total_price + SumTotalPrice(ids \ {k})

\* C28: the subtotal of every persisted transaction is the sum of the total_price of
\* its line items, also when updateProduct changes a selling_price while
\* createTransaction runs between its validation loop and its item loop.
C28_SubtotalIsItemSum ==
    \A p \in Procs :
        Created(p) =>
            LET t == local[p].transaction
            IN  transactionsTable[t].subtotal =
                    SumTotalPrice({k \in DOMAIN transactionItemsTable :
                                      transactionItemsTable[k].transaction_id = t})
====
